---- MODULE Spec2Model ----
(***************************************************************************)
(* Generic persistence engine of nao (internal/data): Create, Update and   *)
(* Delete over a bolt database, with the Media, MediaRelation and          *)
(* UserMedia services plugged in.  Every db.View / db.Update of the code   *)
(* is one atomic step: bolt gives a read transaction the last committed    *)
(* state and serialises write transactions under the writer lock.          *)
(***************************************************************************)
EXTENDS Integers, Sequences, FiniteSets, TLC

\* ------------------------------------------------------------------ bounds
\* MaxSeq caps the sequence of the Media bucket, MaxJunction the sequence of
\* the MediaRelation and UserMedia buckets, MaxVersion the stored Version at
\* which the model stops starting Updates.
MaxSeq == 2
MaxJunction == 1
MaxVersion == 1

\* SeqBase is the sequence of the Media bucket of a database that was in use
\* before it is opened: the next Identifiers straddle a byte of the key.
SeqBase == 254

\* MaxLen is the length of the longest string handed to Clean, QuarterSpan
\* how far below 0 and above Fall the Quarters handed to Clean reach.
MaxLen == 3
QuarterSpan == 2

\* StatusSpan is how far below Completed and above Hold the WatchStatus
\* values handed to MarshalJSON reach.
StatusSpan == 2

Callers == {"c1", "c2"}

\* --------------------------------------------------------------- constants
MediaBucket == "Media"
UserBucket == "User"
MediaRelationBucket == "MediaRelation"
UserMediaBucket == "UserMedia"
UserMediaListBucket == "UserMediaList"
ProducerBucket == "Producer"
MediaProducerBucket == "MediaProducer"
EpisodeBucket == "Episode"

Winter == 1
Fall == 4
Completed == 0
Planning == 1
Dropped == 2
Hold == 3

\* Buckets() restricted to the buckets the modelled services touch.
Buckets ==
    {MediaBucket, ProducerBucket, EpisodeBucket, UserBucket, MediaProducerBucket,
     MediaRelationBucket, UserMediaBucket}
BucketNames == Buckets \cup {UserMediaListBucket}

\* The services of the model, named by the bucket they return from Bucket().
Services == {MediaBucket, MediaRelationBucket, UserMediaBucket}

\* ------------------------------------------------------------------ errors
Nil == [msg |-> "", id |-> 0]
ErrNotFound(ID) == [msg |-> "entity with id %d not found", id |-> ID]
ErrNilBucket == [msg |-> "bucket must not be nil", id |-> 0]
ErrWatchStatus == [msg |-> "Invalid watch status value", id |-> 0]
ErrDecode == [msg |-> "json: cannot unmarshal", id |-> 0]
PanicNilBucket == [msg |-> "panic: nil pointer dereference", id |-> 0]
ErrBucketNotFound == [msg |-> "bucket not found", id |-> 0]
Fault == [msg |-> "fatal error: unexpected fault address", id |-> 0]

\* Bytes that are not JSON.
Garbage == [raw |-> "not json"]

\* -------------------------------------------------------------------- keys
\* Base-256 digits of a non-negative integer, most significant first, n wide.
RECURSIVE Digits(_, _)
Digits(v, n) == IF n = 0 THEN <<>> ELSE Append(Digits(v \div 256, n - 1), v % 256)

\* itob with the least significant byte first.
itobLittleEndian(v) == [i \in 1..8 |-> Digits(v, 8)[9 - i]]

\* itob: 8 bytes, big endian, of uint64(v); two's complement for v < 0.
itob(v) ==
    IF v >= 0 THEN Digits(v, 8)
    ELSE [i \in 1..8 |-> 255 - Digits(-v - 1, 8)[i]]

\* ------------------------------------------------------------------ strings
\* strings.Trim(s, " ") on a string held as a sequence of characters.
RECURSIVE TrimLeft(_)
TrimLeft(s) == IF s # <<>> /\ Head(s) = " " THEN TrimLeft(Tail(s)) ELSE s

RECURSIVE TrimRight(_)
TrimRight(s) ==
    IF s # <<>> /\ s[Len(s)] = " " THEN TrimRight(SubSeq(s, 1, Len(s) - 1)) ELSE s

\* Trim that removes one blank at each end.
TrimOne(s) ==
    LET l == IF s # <<>> /\ Head(s) = " " THEN Tail(s) ELSE s
    IN IF l # <<>> /\ l[Len(l)] = " " THEN SubSeq(l, 1, Len(l) - 1) ELSE l

Trim(s) == TrimRight(TrimLeft(s))

\* The entity of a caller that holds none.
NoModel == [ID |-> 0]

\* ----------------------------------------------------------------- database
EmptyKV == [k \in {} |-> Nil]
NoBucket == [exists |-> FALSE, seq |-> 0, kv |-> EmptyKV]
EmptyBucket == [exists |-> TRUE, seq |-> 0, kv |-> EmptyKV]

\* tx.Bucket(name): the bucket, or the nil bucket when it was never created.
Bucket(name, d) == d[name]

\* get without the check for a missing key.
getUnchecked(ID, bucket) ==
    IF ~bucket.exists THEN [v |-> Nil, err |-> ErrNilBucket]
    ELSE IF itob(ID) \notin DOMAIN bucket.kv THEN [v |-> Nil, err |-> Nil]
    ELSE [v |-> bucket.kv[itob(ID)], err |-> Nil]

\* get(ID, bucket)
get(ID, bucket) ==
    IF ~bucket.exists THEN [v |-> Nil, err |-> ErrNilBucket]
    ELSE IF itob(ID) \notin DOMAIN bucket.kv THEN [v |-> Nil, err |-> ErrNotFound(ID)]
    ELSE [v |-> bucket.kv[itob(ID)], err |-> Nil]

\* GetRawByID: a read transaction of its own, on the committed state d.
GetRawByID(ID, bucketName, d) == get(ID, Bucket(bucketName, d))

\* bucket.Put(key, value) and bucket.Delete(key) on a bucket value
Put(bucket, key, value) ==
    [bucket EXCEPT !.kv = [k \in DOMAIN bucket.kv \cup {key} |->
                              IF k = key THEN value ELSE bucket.kv[k]]]

BucketDelete(bucket, key) ==
    [bucket EXCEPT !.kv = [k \in DOMAIN bucket.kv \ {key} |-> bucket.kv[k]]]

\* ------------------------------------------------------------ Media service
\* Quarter.IsValid
IsValid(q) == q \in Winter..Fall

\* MediaService.Clean: Type and Source, when not nil, are trimmed of blanks
\* at both ends; a Quarter above 4, when not nil, is reset to 0.
MediaClean(e) ==
    [m |-> [e EXCEPT !.Type = IF @ # <<>> THEN <<Trim(@[1])>> ELSE @,
                     !.Source = IF @ # <<>> THEN <<Trim(@[1])>> ELSE @,
                     !.Quarter = IF @ # <<>> /\ @[1] > 4 THEN <<0>> ELSE @],
     err |-> Nil]

\* MediaService.Validate: the type assertion only.
MediaValidate(e, d) == Nil

\* Initialize that forgets to reset the Version.
MediaInitializeKeepsVersion(e, id) == [e EXCEPT !.ID = id]

\* Initialize that leaves the Identifier the caller passed.
MediaInitializeKeepsID(e, id) == [e EXCEPT !.Version = 0]

MediaInitialize(e, id) == [e EXCEPT !.ID = id, !.Version = 0]

\* PersistOldProperties that counts from the Version the caller passed.
MediaPersistFromCaller(n, o) == [n EXCEPT !.Version = n.Version + 1]

\* PersistOldProperties that carries the old Version over unchanged.
MediaPersistNoIncrement(n, o) == [n EXCEPT !.Version = o.Version]

MediaPersistOldProperties(n, o) == [n EXCEPT !.Version = o.Version + 1]

\* json.Marshal of a Media: SeasonPremiered is a nested object, a nil
\* pointer is null (the empty sequence).
MediaMarshal(e) ==
    [buf |-> [ID |-> e.ID, SeasonPremiered |-> [Quarter |-> e.Quarter],
              Type |-> e.Type, Source |-> e.Source,
              Version |-> e.Version],
     err |-> Nil]

MediaUnmarshal(buf) ==
    IF "SeasonPremiered" \notin DOMAIN buf
    THEN [m |-> Nil, err |-> ErrDecode]
    ELSE [m |-> [ID |-> buf.ID, Quarter |-> buf.SeasonPremiered.Quarter,
                 Type |-> buf.Type, Source |-> buf.Source,
                 Version |-> buf.Version],
          err |-> Nil]

\* ---------------------------------------------------- MediaRelation service
MediaRelationClean(e) ==
    [m |-> [e EXCEPT !.Relationship = Trim(e.Relationship)], err |-> Nil]

\* Validate that looks up the owner only.
MediaRelationValidateOwnerOnly(e, d) == get(e.OwnerID, Bucket(MediaBucket, d)).err

\* MediaRelationService.Validate: one read transaction, owner then related.
MediaRelationValidate(e, d) ==
    LET mb == Bucket(MediaBucket, d)
        o == get(e.OwnerID, mb)
        r == get(e.RelatedID, mb)
    IN IF o.err # Nil THEN o.err
       ELSE IF r.err # Nil THEN r.err
       ELSE Nil

MediaRelationInitialize(e, id) == [e EXCEPT !.ID = id, !.Version = 0]

MediaRelationPersistOldProperties(n, o) == [n EXCEPT !.Version = o.Version + 1]

MediaRelationMarshal(e) ==
    [buf |-> [ID |-> e.ID, OwnerID |-> e.OwnerID, RelatedID |-> e.RelatedID,
              Relationship |-> e.Relationship, Version |-> e.Version],
     err |-> Nil]

MediaRelationUnmarshal(buf) ==
    IF "OwnerID" \notin DOMAIN buf
    THEN [m |-> Nil, err |-> ErrDecode]
    ELSE [m |-> [ID |-> buf.ID, OwnerID |-> buf.OwnerID,
                 RelatedID |-> buf.RelatedID,
                 Relationship |-> buf.Relationship, Version |-> buf.Version],
          err |-> Nil]

\* -------------------------------------------------------- UserMedia service
WatchStatusNames ==
    [s \in Completed..Hold |->
        CASE s = Completed -> "Completed"
          [] s = Planning -> "Planning"
          [] s = Dropped -> "Dropped"
          [] OTHER -> "Hold"]

\* The map of UnmarshalJSON with Dropped and Hold exchanged.
WatchStatusValuesSwapped ==
    [n \in {"Completed", "Planning", "Dropped", "Hold"} |->
        CASE n = "Completed" -> Completed
          [] n = "Planning" -> Planning
          [] n = "Dropped" -> Hold
          [] OTHER -> Dropped]

\* The map of UnmarshalJSON, from the name to the WatchStatus.
WatchStatusValues ==
    [n \in {"Completed", "Planning", "Dropped", "Hold"} |->
        CASE n = "Completed" -> Completed
          [] n = "Planning" -> Planning
          [] n = "Dropped" -> Dropped
          [] OTHER -> Hold]

\* WatchStatus.MarshalJSON on a *WatchStatus; a nil pointer encodes as null.
WatchStatusMarshalJSON(ws) ==
    IF ws = <<>> THEN [v |-> "null", err |-> Nil]
    ELSE IF ws[1] \notin DOMAIN WatchStatusNames THEN [v |-> "", err |-> ErrWatchStatus]
    ELSE [v |-> WatchStatusNames[ws[1]], err |-> Nil]

\* WatchStatus.UnmarshalJSON into a *WatchStatus; null leaves the pointer nil.
WatchStatusUnmarshalJSON(data) ==
    IF data = "null" THEN [ws |-> <<>>, err |-> Nil]
    ELSE IF data \in DOMAIN WatchStatusValues
    THEN [ws |-> <<WatchStatusValues[data]>>, err |-> Nil]
    ELSE [ws |-> <<>>, err |-> ErrDecode]

\* UserMediaService.Clean: only comment lists, which the model leaves out.
UserMediaClean(e) == [m |-> e, err |-> Nil]

\* The error of the first list identifier that get() rejects, else Nil.
RECURSIVE ValidateLists(_, _)
ValidateLists(ids, umlb) ==
    IF ids = <<>> THEN Nil
    ELSE IF get(Head(ids), umlb).err # Nil THEN get(Head(ids), umlb).err
    ELSE ValidateLists(Tail(ids), umlb)

\* UserMediaService.Validate: one read transaction; user, media, then lists.
UserMediaValidate(e, d) ==
    LET u == get(e.UserID, Bucket(UserBucket, d))
        md == get(e.MediaID, Bucket(MediaBucket, d))
    IN IF u.err # Nil THEN u.err
       ELSE IF md.err # Nil THEN md.err
       ELSE ValidateLists(e.UserMediaListIDs, Bucket(UserMediaListBucket, d))

UserMediaInitialize(e, id) == [e EXCEPT !.ID = id, !.Version = 0]

UserMediaPersistOldProperties(n, o) == [n EXCEPT !.Version = o.Version + 1]

UserMediaMarshal(e) ==
    LET st == WatchStatusMarshalJSON(e.Status)
    IN IF st.err # Nil THEN [buf |-> Nil, err |-> st.err]
       ELSE [buf |-> [ID |-> e.ID, UserID |-> e.UserID, MediaID |-> e.MediaID,
                      Status |-> st.v, UserMediaListIDs |-> e.UserMediaListIDs,
                      Version |-> e.Version],
             err |-> Nil]

UserMediaUnmarshal(buf) ==
    IF "UserID" \notin DOMAIN buf
    THEN [m |-> Nil, err |-> ErrDecode]
    ELSE LET st == WatchStatusUnmarshalJSON(buf.Status)
         IN IF st.err # Nil THEN [m |-> Nil, err |-> st.err]
            ELSE [m |-> [ID |-> buf.ID, UserID |-> buf.UserID,
                         MediaID |-> buf.MediaID, Status |-> st.ws,
                         UserMediaListIDs |-> buf.UserMediaListIDs,
                         Version |-> buf.Version],
                  err |-> Nil]

\* --------------------------------------------- the Service interface, by name
Clean(ser, e) ==
    CASE ser = MediaBucket -> MediaClean(e)
      [] ser = MediaRelationBucket -> MediaRelationClean(e)
      [] OTHER -> UserMediaClean(e)

Validate(ser, e, d) ==
    CASE ser = MediaBucket -> MediaValidate(e, d)
      [] ser = MediaRelationBucket -> MediaRelationValidate(e, d)
      [] OTHER -> UserMediaValidate(e, d)

Initialize(ser, e, id) ==
    CASE ser = MediaBucket -> MediaInitialize(e, id)
      [] ser = MediaRelationBucket -> MediaRelationInitialize(e, id)
      [] OTHER -> UserMediaInitialize(e, id)

PersistOldProperties(ser, n, o) ==
    CASE ser = MediaBucket -> MediaPersistOldProperties(n, o)
      [] ser = MediaRelationBucket -> MediaRelationPersistOldProperties(n, o)
      [] OTHER -> UserMediaPersistOldProperties(n, o)

Marshal(ser, e) ==
    CASE ser = MediaBucket -> MediaMarshal(e)
      [] ser = MediaRelationBucket -> MediaRelationMarshal(e)
      [] OTHER -> UserMediaMarshal(e)

Unmarshal(ser, buf) ==
    CASE ser = MediaBucket -> MediaUnmarshal(buf)
      [] ser = MediaRelationBucket -> MediaRelationUnmarshal(buf)
      [] OTHER -> UserMediaUnmarshal(buf)


\* ------------------------------------------------------- the generic engine
\* db.Update that commits whatever the function returned.
DBUpdateAlwaysCommits(d, w, e) == w

\* db.Update(fn): commit the transaction's working state w when fn returned
\* no error, roll back to the committed state d otherwise.
DBUpdate(d, w, e) == IF e = Nil THEN w ELSE d

\* The write transaction of Create (m is a pointer: the caller keeps what
\* Initialize wrote into it).
CreateTx(e, s, d) ==
    LET b == Bucket(s, d)
        id == b.seq + 1
        b1 == [b EXCEPT !.seq = id]
        m1 == Initialize(s, e, id)
        mar == Marshal(s, m1)
    IN IF ~b.exists THEN [db |-> d, m |-> e, err |-> PanicNilBucket]
       ELSE IF mar.err # Nil
       THEN [db |-> DBUpdate(d, [d EXCEPT ![s] = b1], mar.err), m |-> m1, err |-> mar.err]
       ELSE [db |-> DBUpdate(d, [d EXCEPT ![s] = Put(b1, itob(m1.ID), mar.buf)], Nil),
             m |-> m1, err |-> Nil]

\* Update that rejects an entity whose Version is not the stored one.
UpdateTxOptimistic(e, s, d) ==
    LET r == GetRawByID(e.ID, s, d)
        o == Unmarshal(s, r.v)
        b == Bucket(s, d)
        m1 == PersistOldProperties(s, e, o.m)
        mar == Marshal(s, m1)
    IN IF r.err # Nil THEN [db |-> d, m |-> e, err |-> r.err]
       ELSE IF o.err # Nil THEN [db |-> d, m |-> e, err |-> o.err]
       ELSE IF e.Version # o.m.Version THEN [db |-> d, m |-> e, err |-> ErrNotFound(e.ID)]
       ELSE IF mar.err # Nil THEN [db |-> DBUpdate(d, d, mar.err), m |-> m1, err |-> mar.err]
       ELSE [db |-> DBUpdate(d, [d EXCEPT ![s] = Put(b, itob(m1.ID), mar.buf)], Nil),
             m |-> m1, err |-> Nil]

\* The write transaction of Update.  The old value is read by GetRawByID in
\* a read transaction opened inside the write transaction: it sees the
\* committed state d, which no other writer can change meanwhile.
UpdateTx(e, s, d) ==
    LET r == GetRawByID(e.ID, s, d)
        o == Unmarshal(s, r.v)
        b == Bucket(s, d)
        m1 == PersistOldProperties(s, e, o.m)
        mar == Marshal(s, m1)
    IN IF r.err # Nil THEN [db |-> d, m |-> e, err |-> r.err]
       ELSE IF o.err # Nil THEN [db |-> d, m |-> e, err |-> o.err]
       ELSE IF mar.err # Nil THEN [db |-> DBUpdate(d, d, mar.err), m |-> m1, err |-> mar.err]
       ELSE [db |-> DBUpdate(d, [d EXCEPT ![s] = Put(b, itob(m1.ID), mar.buf)], Nil),
             m |-> m1, err |-> Nil]

\* Delete that reports a missing key.
DeleteTxStrict(id, s, d) ==
    IF ~Bucket(s, d).exists THEN [db |-> d, err |-> PanicNilBucket]
    ELSE IF itob(id) \notin DOMAIN Bucket(s, d).kv THEN [db |-> d, err |-> ErrNotFound(id)]
    ELSE [db |-> [d EXCEPT ![s] = BucketDelete(Bucket(s, d), itob(id))], err |-> Nil]

\* Delete that refuses a Media some MediaRelation still names.
DeleteTxGuarded(id, s, d) ==
    IF ~Bucket(s, d).exists THEN [db |-> d, err |-> PanicNilBucket]
    ELSE IF /\ s = MediaBucket
            /\ \E k \in DOMAIN d[MediaRelationBucket].kv :
                  id \in {d[MediaRelationBucket].kv[k].OwnerID,
                          d[MediaRelationBucket].kv[k].RelatedID}
    THEN [db |-> d, err |-> ErrNotFound(id)]
    ELSE [db |-> [d EXCEPT ![s] = BucketDelete(Bucket(s, d), itob(id))], err |-> Nil]

\* The write transaction of Delete.
DeleteTx(id, s, d) ==
    LET b == Bucket(s, d)
    IN IF ~b.exists THEN [db |-> d, err |-> PanicNilBucket]
       ELSE [db |-> DBUpdate(d, [d EXCEPT ![s] = BucketDelete(b, itob(id))], Nil),
             err |-> Nil]

\* ------------------------------------------------- package pkg/data (older)
\* The functions of pkg/data work on the same database without the generic
\* engine, each in one transaction.  Its helpers bucket, get and itob are
\* not among the sources at hand; get and itob are called as those of
\* internal/data are and are taken to be the same.
\* bucket(name, tx): the handle of the bucket, as the storage collaborator
\* of the specification hands it out.
bucket(name, d) == [b |-> d[name], err |-> Nil]

\* json.Marshal of a MediaProducer and of an Episode: flat objects.
MediaProducerMarshal(mp) ==
    [ID |-> mp.ID, MediaID |-> mp.MediaID, ProducerID |-> mp.ProducerID,
     Version |-> mp.Version]

EpisodeMarshal(ep) == [ID |-> ep.ID, MediaID |-> ep.MediaID]

\* json.Unmarshal(o, &old) in MediaProducerUpdate: old starts as the zero
\* value and stays so when the bytes are not a MediaProducer.
MediaProducerDecode(buf) ==
    IF {"ID", "MediaID", "ProducerID", "Version"} \subseteq DOMAIN buf
    THEN [m |-> [ID |-> buf.ID, MediaID |-> buf.MediaID,
                 ProducerID |-> buf.ProducerID, Version |-> buf.Version],
          err |-> Nil]
    ELSE [m |-> [ID |-> 0, MediaID |-> 0, ProducerID |-> 0, Version |-> 0],
          err |-> ErrDecode]

\* MediaProducerCreate: the lookups of Media and Producer, NextSequence and
\* the put in one write transaction.
MediaProducerCreate(mp, d) ==
    LET b == bucket(MediaProducerBucket, d)
        mb == bucket(MediaBucket, d)
        gm == get(mp.MediaID, mb.b)
        pb == bucket(ProducerBucket, d)
        gp == get(mp.ProducerID, pb.b)
        id == b.b.seq + 1
        mp1 == [mp EXCEPT !.ID = id]
        w == [d EXCEPT ![MediaProducerBucket] =
                 Put([b.b EXCEPT !.seq = id], itob(mp1.ID), MediaProducerMarshal(mp1))]
    IN IF b.err # Nil THEN [db |-> DBUpdate(d, d, b.err), m |-> mp, err |-> b.err]
       ELSE IF mb.err # Nil THEN [db |-> DBUpdate(d, d, mb.err), m |-> mp, err |-> mb.err]
       ELSE IF gm.err # Nil THEN [db |-> DBUpdate(d, d, gm.err), m |-> mp, err |-> gm.err]
       ELSE IF pb.err # Nil THEN [db |-> DBUpdate(d, d, pb.err), m |-> mp, err |-> pb.err]
       ELSE IF gp.err # Nil THEN [db |-> DBUpdate(d, d, gp.err), m |-> mp, err |-> gp.err]
       ELSE IF ~b.b.exists THEN [db |-> d, m |-> mp, err |-> PanicNilBucket]
       ELSE [db |-> DBUpdate(d, w, Nil), m |-> mp1, err |-> Nil]

\* MediaProducerUpdate: the stored value is looked up and decoded, the
\* error of the decoding is overwritten by that of json.Marshal.
MediaProducerUpdate(mp, d) ==
    LET b == bucket(MediaProducerBucket, d)
        o == get(mp.ID, b.b)
        old == MediaProducerDecode(o.v).m
        mp1 == [mp EXCEPT !.Version = old.Version + 1]
        w == [d EXCEPT ![MediaProducerBucket] =
                 Put(b.b, itob(mp1.ID), MediaProducerMarshal(mp1))]
    IN IF b.err # Nil THEN [db |-> DBUpdate(d, d, b.err), m |-> mp, err |-> b.err]
       ELSE IF o.err # Nil THEN [db |-> DBUpdate(d, d, o.err), m |-> mp, err |-> o.err]
       ELSE [db |-> DBUpdate(d, w, Nil), m |-> mp1, err |-> Nil]

\* EpisodeCreate: NextSequence and the put in one write transaction.
EpisodeCreate(ep, d) ==
    LET b == bucket(EpisodeBucket, d)
        id == b.b.seq + 1
        ep1 == [ep EXCEPT !.ID = id]
        w == [d EXCEPT ![EpisodeBucket] =
                 Put([b.b EXCEPT !.seq = id], itob(ep1.ID), EpisodeMarshal(ep1))]
    IN IF b.err # Nil THEN [db |-> DBUpdate(d, d, b.err), m |-> ep, err |-> b.err]
       ELSE IF ~b.b.exists THEN [db |-> d, m |-> ep, err |-> PanicNilBucket]
       ELSE [db |-> DBUpdate(d, w, Nil), m |-> ep1, err |-> Nil]

\* EpisodeUpdate: the stored Episode must exist; the passed one replaces it.
EpisodeUpdate(ep, d) ==
    LET b == bucket(EpisodeBucket, d)
        o == get(ep.ID, b.b)
        w == [d EXCEPT ![EpisodeBucket] = Put(b.b, itob(ep.ID), EpisodeMarshal(ep))]
    IN IF b.err # Nil THEN [db |-> DBUpdate(d, d, b.err), m |-> ep, err |-> b.err]
       ELSE IF o.err # Nil THEN [db |-> DBUpdate(d, d, o.err), m |-> ep, err |-> o.err]
       ELSE [db |-> DBUpdate(d, w, Nil), m |-> ep, err |-> Nil]

\* Buckets() in the order of its array, restricted likewise.
BucketsInOrder ==
    <<MediaBucket, ProducerBucket, EpisodeBucket, UserBucket, MediaProducerBucket,
      MediaRelationBucket, UserMediaBucket>>

\* The loop of ClearDatabase over the bucket names, w being the working
\* state of the transaction: tx.DeleteBucket of a bucket that does not exist
\* returns an error, which ends the loop.
RECURSIVE DeleteBuckets(_, _)
DeleteBuckets(names, w) ==
    IF names = <<>> THEN [w |-> w, err |-> Nil]
    ELSE IF ~w[Head(names)].exists THEN [w |-> w, err |-> ErrBucketNotFound]
    ELSE DeleteBuckets(Tail(names), [w EXCEPT ![Head(names)] = NoBucket])

\* ClearDatabase: one write transaction that deletes every bucket of
\* Buckets(); the error of the loop rolls the transaction back.
ClearDatabase(d) ==
    LET each == DeleteBuckets(BucketsInOrder, d)
    IN [db |-> DBUpdate(d, each.w, each.err), err |-> each.err]

\* ----------------------------------------------------------------- reads
\* Lexicographic order of two keys of equal length (bytes.Compare < 0).
RECURSIVE LexLess(_, _)
LexLess(x, y) ==
    IF x = <<>> THEN FALSE
    ELSE IF Head(x) # Head(y) THEN Head(x) < Head(y)
    ELSE LexLess(Tail(x), Tail(y))

\* The keys of a bucket in the order ForEach visits them.
RECURSIVE KeysInOrder(_)
KeysInOrder(S) ==
    IF S = {} THEN <<>>
    ELSE LET first == CHOOSE k \in S : \A j \in S \ {k} : LexLess(k, j)
         IN <<first>> \o KeysInOrder(S \ {first})

\* GetRawAll: the values of the bucket in key order, in one read
\* transaction; ForEach on the nil bucket dereferences nil.
GetRawAll(bucketName, d) ==
    LET b == Bucket(bucketName, d)
        keys == KeysInOrder(DOMAIN b.kv)
    IN IF ~b.exists THEN [list |-> <<>>, err |-> PanicNilBucket]
       ELSE [list |-> [i \in 1..Len(keys) |-> b.kv[keys[i]]], err |-> Nil]

\* The predicates callers pass to GetFilter.
KeepAll == "all"
KeepNone == "none"
KeepFresh == "Version = 0"
Keeps == {KeepAll, KeepNone, KeepFresh}

Keep(keep, e) ==
    CASE keep = KeepAll -> TRUE
      [] keep = KeepNone -> FALSE
      [] OTHER -> e.Version = 0

\* The loop of GetFilter over the raw values vlist, list being the result
\* so far: the first value that does not decode ends it with a nil list.
RECURSIVE FilterLoop(_, _, _, _)
FilterLoop(s, keep, vlist, list) ==
    IF vlist = <<>> THEN [list |-> list, err |-> Nil]
    ELSE LET u == Unmarshal(s, Head(vlist))
         IN IF u.err # Nil THEN [list |-> <<>>, err |-> u.err]
            ELSE FilterLoop(s, keep, Tail(vlist),
                            IF Keep(keep, u.m) THEN Append(list, u.m) ELSE list)

\* GetFilter and GetByID when no write transaction commits between their
\* read transaction and their decoding.
GetFilter(s, keep, d) ==
    LET raw == GetRawAll(s, d)
    IN IF raw.err # Nil THEN [list |-> <<>>, err |-> raw.err]
       ELSE FilterLoop(s, keep, raw.list, <<>>)

GetAll(s, d) == GetFilter(s, KeepAll, d)

\* The part of GetByID after GetRawByID: Unmarshal of the bytes v.
DecodeByID(s, v) ==
    LET u == Unmarshal(s, v)
    IN IF u.err # Nil THEN [m |-> NoModel, err |-> u.err]
       ELSE [m |-> u.m, err |-> Nil]

GetByID(id, s, d) ==
    LET r == GetRawByID(id, s, d)
    IN IF r.err # Nil THEN [m |-> NoModel, err |-> r.err]
       ELSE DecodeByID(s, r.v)

\* GetRawByID and GetRawAll hand out the slices that Bucket.Get and ForEach
\* returned, and these point into the memory-mapped file: bolt keeps them
\* valid for the life of the transaction only.  The callers decode them
\* after db.View has returned.  What happens to the slices depends on the
\* write transactions that commit in between, whether or not they change a
\* key.  x.n counts them, 2 standing for two or more.  A write transaction
\* copies the leaf of each key it puts or removes to another page and frees
\* the page the leaf was in: x.freed holds the places in the bucket touched so
\* far.  x.leaves holds, for each commit that came after another had freed
\* a page, the places freed before it (of), the places it touched itself
\* (by), the contents it left the bucket with (kv) and its number among
\* them (no).
NoCommits == [n |-> 0, freed |-> {}, leaves |-> {}]

\* bolt splits a node of more than 2 * MinKeysPerPage keys when it is larger
\* than a page, into leaves of MinKeysPerPage keys or more; a smaller
\* bucket is one leaf.
MinKeysPerPage == 2

\* The place of key k among the keys that a read transaction saw: how many
\* of them are not above k.  It decides the leaf that k lies in; in a
\* bucket of one leaf every key has place 0.
Slot(keys, k) ==
    IF Len(keys) <= 2 * MinKeysPerPage THEN 0
    ELSE Cardinality({i \in 1..Len(keys) : ~LexLess(k, keys[i])})

\* One more write transaction commits: it touched the places ks of the
\* bucket and leaves the bucket as b.
AfterCommit(x, b, ks) ==
    [n |-> IF x.n = 0 THEN 1 ELSE 2,
     freed |-> x.freed \cup ks,
     leaves |-> IF x.freed = {} \/ ks = {} THEN x.leaves
                ELSE x.leaves \cup {[of |-> x.freed, by |-> ks, kv |-> b.kv,
                                      no |-> Cardinality(x.leaves) + 1]}]

\* A write transaction has committed since: every commit writes a new
\* freelist page and may grow the file and replace the mapping the slices
\* point into.  The old address is then not mapped (the read faults) or
\* lies in the new mapping at another offset of the file.
Stale(x) == x.n >= 1

\* Two write transactions have committed since: the first freed pages the
\* read transaction saw, and bolt hands a freed page out again from the
\* next write transaction on, which writes a leaf it has copied into it.
Rewritten(x) == x.n >= 2

\* The leaf pages that a bucket of n keys can lie in, each layout being the
\* set of the positions after which a new leaf begins.  The encoded size of
\* a Media is not bounded (Titles, Synopses), so a bucket of more than
\* 2 * MinKeysPerPage keys can lie in several leaves.
Layouts(n) ==
    IF n <= 2 * MinKeysPerPage THEN {{}}
    ELSE {cuts \in SUBSET (1..n-1) :
            \A i \in cuts \cup {0} :
               /\ i + MinKeysPerPage <= n
               /\ \A j \in cuts : j > i => j >= i + MinKeysPerPage}

\* The leaf of the key at place slot, the leaves counted from 0.
LeafOf(cuts, slot) == Cardinality({i \in cuts : slot > i})

\* The bytes a slice for v can hold when it is decoded.  g is what the
\* caller holds of the read transaction: the bucket at as the transaction
\* saw it, the layout cuts, the position i of the slice's key in the
\* bucket, and seen, the latest rewriting of its page that a slice read
\* before it has shown (0 for none).  The slice holds what it held while
\* the page is as it was; after a commit it can be no JSON at all (zeros,
\* the bytes of another part of the file); and when a commit touched its
\* leaf and a later one wrote the leaf it touched into the freed page, the
\* value at the same position of that leaf.  A page is not seen as it was
\* before once it was seen rewritten.
Dangling(v, g, x) ==
    LET keys == KeysInOrder(DOMAIN g.at.kv)
        l == LeafOf(g.cuts, g.i)
        p == Cardinality({j \in 1..g.i : LeafOf(g.cuts, j) = l})
        Copied(e) ==
            {KeysInOrder({k \in DOMAIN e.kv :
                            LeafOf(g.cuts, Slot(keys, k)) = LeafOf(g.cuts, b)}) : b \in e.by}
    IN (IF g.seen = 0 THEN {[v |-> v, seen |-> 0]} ELSE {})
       \cup (IF Stale(x) THEN {[v |-> Garbage, seen |-> g.seen]} ELSE {})
       \cup (IF Rewritten(x)
             THEN UNION {{[v |-> e.kv[ks[p]], seen |-> e.no] :
                            ks \in {q \in Copied(e) : Len(q) >= p}} :
                         e \in {f \in x.leaves :
                                  /\ f.no >= g.seen
                                  /\ \E k \in f.of : LeafOf(g.cuts, k) = l}}
             ELSE {})

\* The filters of pkg/data over MediaProducer: <<>> is that of
\* MediaProducerGetAll, <<p>> that of MediaProducerGetByProducer(p).
MediaProducerKeep(f, mp) == f = <<>> \/ mp.ProducerID = f[1]

\* The ForEach of MediaProducerGetFilter over the values vlist, list being
\* the result so far: the callback returns the error of json.Unmarshal, and
\* ForEach ends at the first error and returns it.
RECURSIVE MediaProducerForEach(_, _, _)
MediaProducerForEach(f, vlist, list) ==
    IF vlist = <<>> THEN [list |-> list, err |-> Nil]
    ELSE LET u == MediaProducerDecode(Head(vlist))
         IN IF u.err # Nil THEN [list |-> list, err |-> u.err]
            ELSE IF MediaProducerKeep(f, u.m)
            THEN MediaProducerForEach(f, Tail(vlist), Append(list, u.m))
            ELSE MediaProducerForEach(f, Tail(vlist), list)

\* MediaProducerGetFilter: one read transaction that decodes inside; what
\* ForEach returns is dropped and the function of db.View returns nil.
MediaProducerGetFilter(f, d) ==
    LET b == bucket(MediaProducerBucket, d)
        keys == KeysInOrder(DOMAIN b.b.kv)
        each == MediaProducerForEach(f, [i \in 1..Len(keys) |-> b.b.kv[keys[i]]], <<>>)
    IN IF b.err # Nil THEN [list |-> <<>>, err |-> b.err]
       ELSE IF ~b.b.exists THEN [list |-> <<>>, err |-> PanicNilBucket]
       ELSE [list |-> each.list, err |-> Nil]

\* ------------------------------------------------------------------- inputs
\* Identifiers a caller passes: 0 is never assigned by a sequence.
IDs == 0..MaxSeq
JunctionIDs == 0..MaxJunction

SeqCap(s) == IF s = MediaBucket THEN MaxSeq ELSE MaxJunction

\* Media as callers pass them: any ID, a Version of 0 or 7, nil Type and
\* Source, a Quarter that
\* Clean keeps (2) or resets (5).
MediaInputs ==
    {[ID |-> i, Version |-> vq[1], Quarter |-> vq[2], Type |-> <<>>, Source |-> <<>>] :
        i \in IDs, vq \in {<<0, <<2>>>>, <<7, <<5>>>>}}

OneMedia == [ID |-> 0, Version |-> 7, Quarter |-> <<5>>, Type |-> <<>>, Source |-> <<>>]

\* Media a caller passes to Create: the ID it carries is overwritten.
MediaCreateInputs == {e \in MediaInputs : e.ID <= 1}

\* MediaRelation as callers pass them: any owner, related to Media 1, a
\* Relationship that Clean trims.
MediaRelationInputs ==
    [ID : JunctionIDs, OwnerID : 1..MaxSeq, RelatedID : {1},
     Relationship : {<<" ", "a">>}, Version : {7}]

\* UserMedia as callers pass them: a valid one, one whose Status does not
\* marshal, one with an unknown user, one with a list identifier; the Media
\* may or may not exist when the call is made.
UserMediaInputs ==
    {[ID |-> i, UserID |-> t[1], MediaID |-> t[2], Status |-> t[3],
      UserMediaListIDs |-> t[4], Version |-> 7] :
        i \in JunctionIDs,
        t \in {<<1, 1, <<Planning>>, <<>>>>, <<1, 1, <<7>>, <<>>>>,
               <<2, 1, <<Planning>>, <<>>>>, <<1, 2, <<>>, <<>>>>,
               <<1, 1, <<Planning>>, <<1>>>>}}

\* MediaProducer as callers pass them, all of Media 1: Producer 1 is stored,
\* Producer 2 is not.
MediaProducerInputs ==
    [ID : JunctionIDs, MediaID : {1}, ProducerID : {1, 2}, Version : {0, 7}]

EpisodeInputs == [ID : JunctionIDs, MediaID : 1..MaxSeq]

\* Strings of blanks and letters, up to MaxLen long.
Strings == UNION {[1..k -> {" ", "a"}] : k \in 0..MaxLen}

\* Media as Clean may be handed them: a nil or any Quarter from QuarterSpan
\* below 0 to QuarterSpan above Fall, a nil or any Type, a nil or a padded
\* Source.
MediaCleanInputs ==
    [ID : {0}, Version : {0},
     Quarter : {<<>>} \cup {<<q>> : q \in -QuarterSpan .. Fall + QuarterSpan},
     Type : {<<>>} \cup {<<t>> : t \in Strings},
     Source : {<<>>, <<<<" ", "a", " ">>>>}]

\* MediaRelation as Clean may be handed them: any Relationship.
MediaRelationCleanInputs ==
    [ID : {0}, OwnerID : {1}, RelatedID : {1}, Relationship : Strings, Version : {0}]

\* WatchStatus values handed to MarshalJSON: from StatusSpan below Completed
\* to StatusSpan above Hold.
StatusInputs == Completed - StatusSpan .. Hold + StatusSpan

\* JSON strings handed to UnmarshalJSON.
StatusTexts ==
    {"Completed", "Planning", "Dropped", "Hold", "", "completed", "Watching", "0", "3"}

\* -------------------------------------------------------------------- state
VARIABLES
    db,        \* committed state of the bolt file: bucket name -> bucket
    pc,        \* where each caller is in its call
    op,        \* the operation a caller is in
    ser,       \* the service (bucket name) of the call
    arg,       \* the entity as the caller passed it
    m,         \* the entity behind the caller's pointer, as mutated so far
    err,       \* the error the call returned
    res,       \* the entity or list a read returned
    stage,     \* the stage of the call that produced its error
    assigned,  \* history: every key a bucket has held since it was opened
    updates,   \* history: committed Updates per bucket and key
    written,   \* history: the entity of the last committed put, per stored key
    seq0,      \* the sequence of each bucket when the database was opened
    commits    \* per caller: the commits since its read transaction ended

vars == <<db, pc, op, ser, arg, m, err, res, stage, assigned, updates, written, seq0, commits>>

\* Version stored under key k of bucket s.
StoredVersion(s, k) == db[s].kv[k].Version

Bump(u, s, k) ==
    [u EXCEPT ![s] = [x \in DOMAIN u[s] \cup {k} |->
                         IF x \in DOMAIN u[s] THEN (IF x = k THEN u[s][x] + 1 ELSE u[s][x])
                         ELSE 1]]

\* The database after ConnectDatabase(create = true) on a file that already
\* holds one User and one Producer; the UserMediaList bucket is not among
\* Buckets().
ConnectedDB ==
    [n \in BucketNames |->
       CASE n = UserMediaListBucket -> NoBucket
         [] n = UserBucket ->
              [exists |-> TRUE, seq |-> 1,
               kv |-> [k \in {itob(1)} |-> [ID |-> 1, Username |-> "u", Version |-> 0]]]
         [] n = ProducerBucket ->
              [exists |-> TRUE, seq |-> 1,
               kv |-> [k \in {itob(1)} |-> [ID |-> 1, Version |-> 0]]]
         [] OTHER -> EmptyBucket]

\* The state of the callers and of the history when the database d is opened.
InitWith(d) ==
    /\ db = d
    /\ pc = [c \in Callers |-> "idle"]
    /\ op = [c \in Callers |-> "none"]
    /\ ser = [c \in Callers |-> "none"]
    /\ arg = [c \in Callers |-> NoModel]
    /\ m = [c \in Callers |-> NoModel]
    /\ err = [c \in Callers |-> Nil]
    /\ res = [c \in Callers |-> NoModel]
    /\ stage = [c \in Callers |-> ""]
    /\ assigned = [n \in BucketNames |-> DOMAIN d[n].kv]
    /\ updates = [n \in BucketNames |-> EmptyKV]
    /\ written = [n \in BucketNames |-> EmptyKV]
    /\ seq0 = [n \in BucketNames |-> d[n].seq]
    /\ commits = [c \in Callers |-> NoCommits]

Init == InitWith(ConnectedDB)

Track(d) == assigned' = [n \in BucketNames |-> assigned[n] \cup DOMAIN d[n].kv]

\* The history of puts after a write transaction with result r on bucket s.
Record(s, r) ==
    written' = IF r.err = Nil THEN [written EXCEPT ![s] = Put([kv |-> @], itob(r.m.ID), r.m).kv]
               ELSE written

\* db.Update has returned e after leaving the database as d, having touched
\* the <<bucket, key>> pairs touched: when it committed, the callers that
\* hold slices of an ended read transaction have one more commit behind
\* them.
UpdateReturns(e, d, touched) ==
    commits' = IF e # Nil THEN commits
               ELSE [c \in Callers |->
                       IF pc[c] = "getDecode"
                       THEN AfterCommit(commits[c], d[ser[c]],
                                        {Slot(KeysInOrder(DOMAIN m[c].at.kv), t[2]) :
                                            t \in {u \in touched : u[1] = ser[c]}})
                       ELSE commits[c]]

\* Create, up to the write transaction: Clean, then Validate in its own
\* read transaction.
CreateBegin(c, s, e) ==
    /\ pc[c] = "idle"
    /\ db[s].seq < seq0[s] + SeqCap(s)
    /\ LET cl == Clean(s, e)
           v == Validate(s, cl.m, db)
       IN /\ op' = [op EXCEPT ![c] = "Create"]
          /\ ser' = [ser EXCEPT ![c] = s]
          /\ arg' = [arg EXCEPT ![c] = e]
          /\ m' = [m EXCEPT ![c] = cl.m]
          /\ IF cl.err # Nil
             THEN /\ pc' = [pc EXCEPT ![c] = "done"]
                  /\ err' = [err EXCEPT ![c] = cl.err]
                  /\ stage' = [stage EXCEPT ![c] = "Clean"]
             ELSE IF v # Nil
             THEN /\ pc' = [pc EXCEPT ![c] = "done"]
                  /\ err' = [err EXCEPT ![c] = v]
                  /\ stage' = [stage EXCEPT ![c] = "Validate"]
             ELSE pc' = [pc EXCEPT ![c] = "createTx"] /\ err' = err /\ stage' = stage
    /\ UNCHANGED <<db, res, assigned, updates, written, seq0, commits>>

\* db.Update begins its write transaction: the caller, waiting at "xTx",
\* takes the writer lock when no caller is at "xLocked", inside db.Update.
WriteLock(c) ==
    /\ pc[c] \in {"createTx", "updateTx", "deleteTx"}
    /\ \A w \in Callers : pc[w] \notin {"createLocked", "updateLocked", "deleteLocked"}
    /\ pc' = [pc EXCEPT ![c] = CASE pc[c] = "createTx" -> "createLocked"
                                  [] pc[c] = "updateTx" -> "updateLocked"
                                  [] OTHER -> "deleteLocked"]
    /\ UNCHANGED <<db, op, ser, arg, m, err, res, stage, assigned, updates, written, seq0, commits>>

\* db.View of caller c has to wait: never, a read transaction takes no lock
\* that a write transaction holds while the function of db.Update runs.
ViewBlocked(c) == FALSE

\* Create, the write transaction, run from position at.
CreateCommitAt(c, at) ==
    /\ pc[c] = at
    /\ \E r \in {CreateTx(m[c], ser[c], db)} :
          /\ db' = r.db
          /\ m' = [m EXCEPT ![c] = r.m]
          /\ err' = [err EXCEPT ![c] = r.err]
          /\ stage' = [stage EXCEPT ![c] = IF r.err = Nil THEN "" ELSE "Tx"]
          /\ Track(r.db)
          /\ Record(ser[c], r)
          /\ UpdateReturns(r.err, r.db, {<<ser[c], itob(r.m.ID)>>})
    /\ pc' = [pc EXCEPT ![c] = "done"]
    /\ UNCHANGED <<op, ser, arg, res, updates, seq0>>

\* Create, the write transaction with its locking in the same step.
CreateCommit(c) == CreateCommitAt(c, "createTx")

\* Update, up to the write transaction.
UpdateBegin(c, s, e) ==
    /\ pc[c] = "idle"
    /\ /\ itob(e.ID) \in DOMAIN db[s].kv
       /\ "Version" \in DOMAIN db[s].kv[itob(e.ID)]
       => StoredVersion(s, itob(e.ID)) < MaxVersion
    /\ LET cl == Clean(s, e)
           v == Validate(s, cl.m, db)
       IN /\ op' = [op EXCEPT ![c] = "Update"]
          /\ ser' = [ser EXCEPT ![c] = s]
          /\ arg' = [arg EXCEPT ![c] = e]
          /\ m' = [m EXCEPT ![c] = cl.m]
          /\ IF cl.err # Nil
             THEN /\ pc' = [pc EXCEPT ![c] = "done"]
                  /\ err' = [err EXCEPT ![c] = cl.err]
                  /\ stage' = [stage EXCEPT ![c] = "Clean"]
             ELSE IF v # Nil
             THEN /\ pc' = [pc EXCEPT ![c] = "done"]
                  /\ err' = [err EXCEPT ![c] = v]
                  /\ stage' = [stage EXCEPT ![c] = "Validate"]
             ELSE pc' = [pc EXCEPT ![c] = "updateTx"] /\ err' = err /\ stage' = stage
    /\ UNCHANGED <<db, res, assigned, updates, written, seq0, commits>>

\* Update, the write transaction, run from position at: it opens the read
\* transaction of GetRawByID inside.
UpdateCommitAt(c, at) ==
    /\ pc[c] = at
    /\ ~ViewBlocked(c)
    /\ \E r \in {UpdateTx(m[c], ser[c], db)} :
          /\ db' = r.db
          /\ m' = [m EXCEPT ![c] = r.m]
          /\ err' = [err EXCEPT ![c] = r.err]
          /\ stage' = [stage EXCEPT ![c] = IF r.err = Nil THEN "" ELSE "Tx"]
          /\ Track(r.db)
          /\ Record(ser[c], r)
          /\ UpdateReturns(r.err, r.db, {<<ser[c], itob(r.m.ID)>>})
          /\ updates' = IF r.err = Nil THEN Bump(updates, ser[c], itob(r.m.ID)) ELSE updates
    /\ pc' = [pc EXCEPT ![c] = "done"]
    /\ UNCHANGED <<op, ser, arg, res, seq0>>

\* Update, the write transaction with its locking in the same step.
UpdateCommit(c) == UpdateCommitAt(c, "updateTx")

\* Delete reaches db.Update.
DeleteBegin(c, s, id) ==
    /\ pc[c] = "idle"
    /\ op' = [op EXCEPT ![c] = "Delete"]
    /\ ser' = [ser EXCEPT ![c] = s]
    /\ arg' = [arg EXCEPT ![c] = [ID |-> id]]
    /\ m' = [m EXCEPT ![c] = [ID |-> id]]
    /\ pc' = [pc EXCEPT ![c] = "deleteTx"]
    /\ UNCHANGED <<db, err, res, stage, assigned, updates, written, seq0, commits>>

\* Delete, the write transaction, run from position at.
DeleteAt(c, s, id, at) ==
    /\ pc[c] = at
    /\ \E r \in {DeleteTx(id, s, db)} :
          /\ db' = r.db
          /\ err' = [err EXCEPT ![c] = r.err]
          /\ stage' = [stage EXCEPT ![c] = IF r.err = Nil THEN "" ELSE "Tx"]
          /\ Track(r.db)
          /\ UpdateReturns(r.err, r.db,
                           IF itob(id) \in DOMAIN db[s].kv THEN {<<s, itob(id)>>} ELSE {})
    /\ op' = [op EXCEPT ![c] = "Delete"]
    /\ ser' = [ser EXCEPT ![c] = s]
    /\ arg' = [arg EXCEPT ![c] = [ID |-> id]]
    /\ m' = [m EXCEPT ![c] = [ID |-> id]]
    /\ pc' = [pc EXCEPT ![c] = "done"]
    /\ written' = [written EXCEPT ![s] = BucketDelete([kv |-> @], itob(id)).kv]
    /\ UNCHANGED <<res, updates, seq0>>

\* Delete: one write transaction with its locking in the same step.
Delete(c, s, id) == DeleteAt(c, s, id, "idle")

\* GetByID, the read transaction of GetRawByID.  m keeps the slice and the
\* bucket as the transaction saw it.
GetByIDView(c, s, id) ==
    /\ pc[c] = "idle"
    /\ ~ViewBlocked(c)
    /\ LET r == GetRawByID(id, s, db)
       IN /\ \E cuts \in Layouts(Cardinality(DOMAIN db[s].kv)) :
                m' = [m EXCEPT ![c] = IF r.err = Nil
                                      THEN [v |-> r.v, at |-> db[s], was |-> written[s],
                                            cuts |-> cuts, seen |-> 0,
                                            i |-> Cardinality({k \in DOMAIN db[s].kv :
                                                                 ~LexLess(itob(id), k)})]
                                      ELSE NoModel]
          /\ res' = [res EXCEPT ![c] = NoModel]
          /\ err' = [err EXCEPT ![c] = r.err]
          /\ stage' = [stage EXCEPT ![c] = IF r.err = Nil THEN "" ELSE "Get"]
          /\ pc' = [pc EXCEPT ![c] = IF r.err = Nil THEN "getDecode" ELSE "done"]
    /\ op' = [op EXCEPT ![c] = "GetByID"]
    /\ ser' = [ser EXCEPT ![c] = s]
    /\ arg' = [arg EXCEPT ![c] = [ID |-> id]]
    /\ commits' = [commits EXCEPT ![c] = NoCommits]
    /\ UNCHANGED <<db, assigned, updates, written, seq0>>

\* GetByID, the Unmarshal of the slice after the transaction has ended.  A
\* slice into a mapping that a growing file has replaced faults: the
\* runtime ends the process: the call does not return and no goroutine
\* runs on.
GetByIDDecode(c) ==
    /\ pc[c] = "getDecode" /\ op[c] = "GetByID"
    /\ \E r \in {DecodeByID(ser[c], d.v) : d \in Dangling(m[c].v, m[c], commits[c])}
                \cup (IF Stale(commits[c])
                      THEN {[m |-> NoModel, err |-> Fault]} ELSE {}) :
          IF r.err = Fault
          THEN pc' = [x \in Callers |-> "crashed"] /\ UNCHANGED <<res, err, stage>>
          ELSE /\ pc' = [pc EXCEPT ![c] = "done"]
               /\ res' = [res EXCEPT ![c] = r.m]
               /\ err' = [err EXCEPT ![c] = r.err]
               /\ stage' = [stage EXCEPT ![c] = IF r.err = Nil THEN "" ELSE "Decode"]
    /\ m' = [m EXCEPT ![c] = NoModel]
    /\ commits' = [commits EXCEPT ![c] = NoCommits]
    /\ UNCHANGED <<db, op, ser, arg, assigned, updates, written, seq0>>

\* GetFilter (GetAll when keep is KeepAll), the read transaction of
\* GetRawAll.
GetFilterView(c, s, keep) ==
    /\ pc[c] = "idle"
    /\ ~ViewBlocked(c)
    /\ LET r == GetRawAll(s, db)
       IN /\ \E cuts \in Layouts(Len(r.list)) :
                m' = [m EXCEPT ![c] = IF r.err = Nil
                                      THEN [v |-> r.list, at |-> db[s], was |-> written[s],
                                            cuts |-> cuts, i |-> 1, seen |-> 0]
                                      ELSE NoModel]
          /\ res' = [res EXCEPT ![c] = [list |-> <<>>]]
          /\ err' = [err EXCEPT ![c] = r.err]
          /\ stage' = [stage EXCEPT ![c] = IF r.err = Nil THEN "" ELSE "Get"]
          /\ pc' = [pc EXCEPT ![c] = IF r.err = Nil THEN "getDecode" ELSE "done"]
    /\ op' = [op EXCEPT ![c] = "GetFilter"]
    /\ ser' = [ser EXCEPT ![c] = s]
    /\ arg' = [arg EXCEPT ![c] = [keep |-> keep]]
    /\ commits' = [commits EXCEPT ![c] = NoCommits]
    /\ UNCHANGED <<db, assigned, updates, written, seq0>>

\* GetFilter, one turn of the Unmarshal loop over the slices after the
\* transaction has ended: the next slice is decoded and kept or not; the
\* loop ends with the last slice or with the first that does not decode,
\* and at once when there is no slice.  Write transactions can commit
\* between two turns.
GetFilterDecode(c) ==
    /\ pc[c] = "getDecode" /\ op[c] = "GetFilter"
    /\ IF m[c].v = <<>>
       THEN /\ pc' = [pc EXCEPT ![c] = "done"]
            /\ m' = [m EXCEPT ![c] = NoModel]
            /\ commits' = [commits EXCEPT ![c] = NoCommits]
            /\ UNCHANGED <<res, err, stage>>
       ELSE \E r \in Dangling(m[c].v[m[c].i], m[c], commits[c])
                     \cup (IF Stale(commits[c]) THEN {[v |-> Fault]} ELSE {}) :
               IF r.v = Fault
               THEN /\ pc' = [x \in Callers |-> "crashed"]
                    /\ m' = [m EXCEPT ![c] = NoModel]
                    /\ commits' = [commits EXCEPT ![c] = NoCommits]
                    /\ UNCHANGED <<res, err, stage>>
               ELSE LET u == Unmarshal(ser[c], r.v)
                        list == IF Keep(arg[c].keep, u.m) THEN Append(res[c].list, u.m)
                                ELSE res[c].list
                    IN IF u.err # Nil
                       THEN /\ pc' = [pc EXCEPT ![c] = "done"]
                            /\ res' = [res EXCEPT ![c] = [list |-> <<>>]]
                            /\ err' = [err EXCEPT ![c] = u.err]
                            /\ stage' = [stage EXCEPT ![c] = "Decode"]
                            /\ m' = [m EXCEPT ![c] = NoModel]
                            /\ commits' = [commits EXCEPT ![c] = NoCommits]
                       ELSE /\ res' = [res EXCEPT ![c] = [list |-> list]]
                            /\ UNCHANGED <<err, stage>>
                            /\ IF m[c].i = Len(m[c].v)
                               THEN /\ pc' = [pc EXCEPT ![c] = "done"]
                                    /\ m' = [m EXCEPT ![c] = NoModel]
                                    /\ commits' = [commits EXCEPT ![c] = NoCommits]
                               ELSE /\ m' = [m EXCEPT ![c].i = @ + 1,
                                                       ![c].seen =
                                                          IF LeafOf(m[c].cuts, m[c].i + 1)
                                                             = LeafOf(m[c].cuts, m[c].i)
                                                          THEN r.seen ELSE 0]
                                    /\ UNCHANGED <<pc, commits>>
    /\ UNCHANGED <<db, op, ser, arg, assigned, updates, written, seq0>>

\* A function of pkg/data that writes: one write transaction.  r is the
\* result of the transaction on the present database.
DataCall(c, o, s, e, r) ==
    /\ pc[c] = "idle"
    /\ db' = r.db
    /\ pc' = [pc EXCEPT ![c] = "done"]
    /\ op' = [op EXCEPT ![c] = o]
    /\ ser' = [ser EXCEPT ![c] = s]
    /\ arg' = [arg EXCEPT ![c] = e]
    /\ m' = [m EXCEPT ![c] = r.m]
    /\ err' = [err EXCEPT ![c] = r.err]
    /\ stage' = [stage EXCEPT ![c] = IF r.err = Nil THEN "" ELSE "Tx"]
    /\ Track(r.db)
    /\ Record(s, r)
    /\ UpdateReturns(r.err, r.db, {<<s, itob(r.m.ID)>>})
    /\ UNCHANGED <<res, seq0>>

\* The number of Updates committed on key k of bucket s.
Updates(s, k) == IF k \in DOMAIN updates[s] THEN updates[s][k] ELSE 0

MediaProducerCreateCall(c, mp) ==
    /\ db[MediaProducerBucket].seq < seq0[MediaProducerBucket] + SeqCap(MediaProducerBucket)
    /\ DataCall(c, "MediaProducerCreate", MediaProducerBucket, mp, MediaProducerCreate(mp, db))
    /\ UNCHANGED updates

MediaProducerUpdateCall(c, mp) ==
    /\ Updates(MediaProducerBucket, itob(mp.ID)) < MaxVersion
    /\ LET r == MediaProducerUpdate(mp, db)
       IN /\ DataCall(c, "MediaProducerUpdate", MediaProducerBucket, mp, r)
          /\ updates' = IF r.err = Nil THEN Bump(updates, MediaProducerBucket, itob(mp.ID))
                        ELSE updates

\* MediaProducerGetFilter (MediaProducerGetAll when f is <<>>).
MediaProducerGetFilterCall(c, f) ==
    /\ pc[c] = "idle"
    /\ pc' = [pc EXCEPT ![c] = "done"]
    /\ \E r \in {MediaProducerGetFilter(f, db)} :
          /\ res' = [res EXCEPT ![c] = [list |-> r.list]]
          /\ err' = [err EXCEPT ![c] = r.err]
          /\ stage' = [stage EXCEPT ![c] = IF r.err = Nil THEN "" ELSE "Tx"]
    /\ op' = [op EXCEPT ![c] = "MediaProducerGetFilter"]
    /\ ser' = [ser EXCEPT ![c] = MediaProducerBucket]
    /\ arg' = [arg EXCEPT ![c] = [f |-> f]]
    /\ UNCHANGED <<db, m, assigned, updates, written, seq0, commits>>

EpisodeCreateCall(c, ep) ==
    /\ db[EpisodeBucket].seq < seq0[EpisodeBucket] + SeqCap(EpisodeBucket)
    /\ DataCall(c, "EpisodeCreate", EpisodeBucket, ep, EpisodeCreate(ep, db))
    /\ UNCHANGED updates

EpisodeUpdateCall(c, ep) ==
    /\ Updates(EpisodeBucket, itob(ep.ID)) < MaxVersion
    /\ LET r == EpisodeUpdate(ep, db)
       IN /\ DataCall(c, "EpisodeUpdate", EpisodeBucket, ep, r)
          /\ updates' = IF r.err = Nil THEN Bump(updates, EpisodeBucket, itob(ep.ID))
                        ELSE updates

\* ClearDatabase: one write transaction.
ClearDatabaseCall(c) ==
    /\ pc[c] = "idle"
    /\ LET r == ClearDatabase(db)
       IN /\ db' = r.db
          /\ err' = [err EXCEPT ![c] = r.err]
          /\ stage' = [stage EXCEPT ![c] = IF r.err = Nil THEN "" ELSE "Tx"]
          /\ written' = [n \in BucketNames |-> IF r.db[n].exists THEN written[n] ELSE EmptyKV]
          /\ UpdateReturns(r.err, r.db,
                           UNION {{<<b, k>> : k \in DOMAIN db[b].kv} : b \in BucketNames})
    /\ pc' = [pc EXCEPT ![c] = "done"]
    /\ op' = [op EXCEPT ![c] = "ClearDatabase"]
    /\ ser' = [ser EXCEPT ![c] = "none"]
    /\ arg' = [arg EXCEPT ![c] = NoModel]
    /\ m' = [m EXCEPT ![c] = NoModel]
    /\ UNCHANGED <<res, assigned, updates, seq0>>

\* ser.Clean(e) called on its own: the entity is cleaned in place.
CleanCall(c, s, e) ==
    /\ pc[c] = "idle"
    /\ LET r == Clean(s, e)
       IN /\ m' = [m EXCEPT ![c] = r.m]
          /\ err' = [err EXCEPT ![c] = r.err]
    /\ pc' = [pc EXCEPT ![c] = "done"]
    /\ op' = [op EXCEPT ![c] = "Clean"]
    /\ ser' = [ser EXCEPT ![c] = s]
    /\ arg' = [arg EXCEPT ![c] = e]
    /\ UNCHANGED <<db, res, stage, assigned, updates, written, seq0, commits>>

\* ser.Clean called once more on the entity it has cleaned; res keeps the
\* entity as the first call left it.
CleanAgain(c) ==
    /\ pc[c] = "done" /\ op[c] = "Clean" /\ err[c] = Nil
    /\ LET r == Clean(ser[c], m[c])
       IN /\ m' = [m EXCEPT ![c] = r.m]
          /\ err' = [err EXCEPT ![c] = r.err]
    /\ res' = [res EXCEPT ![c] = m[c]]
    /\ op' = [op EXCEPT ![c] = "CleanTwice"]
    /\ UNCHANGED <<db, pc, ser, arg, stage, assigned, updates, written, seq0, commits>>

\* MarshalJSON of a WatchStatus and, when it returned no error,
\* UnmarshalJSON of the text into a new WatchStatus.
RoundTripCall(c, ws) ==
    /\ pc[c] = "idle"
    /\ LET enc == WatchStatusMarshalJSON(<<ws>>)
           dec == WatchStatusUnmarshalJSON(enc.v)
       IN /\ res' = [res EXCEPT ![c] = [v |-> enc.v]]
          /\ m' = [m EXCEPT ![c] = [ID |-> 0, Status |-> IF enc.err = Nil THEN dec.ws ELSE <<>>]]
          /\ err' = [err EXCEPT ![c] = IF enc.err # Nil THEN enc.err ELSE dec.err]
          /\ stage' = [stage EXCEPT ![c] = IF enc.err # Nil THEN "Marshal"
                                           ELSE IF dec.err # Nil THEN "Unmarshal" ELSE ""]
    /\ pc' = [pc EXCEPT ![c] = "done"]
    /\ op' = [op EXCEPT ![c] = "RoundTrip"]
    /\ ser' = [ser EXCEPT ![c] = UserMediaBucket]
    /\ arg' = [arg EXCEPT ![c] = [ID |-> 0, Status |-> <<ws>>]]
    /\ UNCHANGED <<db, assigned, updates, written, seq0, commits>>

\* UnmarshalJSON of a JSON string into a WatchStatus.
UnmarshalJSONCall(c, data) ==
    /\ pc[c] = "idle"
    /\ LET dec == WatchStatusUnmarshalJSON(data)
       IN /\ m' = [m EXCEPT ![c] = [ID |-> 0, Status |-> dec.ws]]
          /\ err' = [err EXCEPT ![c] = dec.err]
          /\ stage' = [stage EXCEPT ![c] = IF dec.err # Nil THEN "Unmarshal" ELSE ""]
    /\ pc' = [pc EXCEPT ![c] = "done"]
    /\ op' = [op EXCEPT ![c] = "UnmarshalJSON"]
    /\ ser' = [ser EXCEPT ![c] = UserMediaBucket]
    /\ arg' = [arg EXCEPT ![c] = [ID |-> 0, data |-> data]]
    /\ UNCHANGED <<db, res, assigned, updates, written, seq0, commits>>

\* The call returns to its caller.
Return(c) ==
    /\ pc[c] = "done"
    /\ pc' = [pc EXCEPT ![c] = "idle"]
    /\ op' = [op EXCEPT ![c] = "none"]
    /\ ser' = [ser EXCEPT ![c] = "none"]
    /\ arg' = [arg EXCEPT ![c] = NoModel]
    /\ m' = [m EXCEPT ![c] = NoModel]
    /\ err' = [err EXCEPT ![c] = Nil]
    /\ res' = [res EXCEPT ![c] = NoModel]
    /\ stage' = [stage EXCEPT ![c] = ""]
    /\ UNCHANGED <<db, assigned, updates, written, seq0, commits>>

\* Media and MediaRelation, two callers.
Next ==
    \/ \E c \in Callers : CreateBegin(c, MediaBucket, OneMedia)
    \/ \E c \in Callers, e \in MediaRelationInputs : CreateBegin(c, MediaRelationBucket, e)
    \/ \E c \in Callers : CreateCommit(c)
    \/ \E c \in Callers, e \in MediaRelationInputs : UpdateBegin(c, MediaRelationBucket, e)
    \/ \E c \in Callers : UpdateCommit(c)
    \/ \E c \in Callers, id \in 1..MaxSeq : Delete(c, MediaBucket, id)
    \/ \E c \in Callers : Return(c)

Spec == Init /\ [][Next]_vars

\* The Media service alone, two callers.
NextMedia ==
    \/ \E c \in Callers, e \in MediaCreateInputs : CreateBegin(c, MediaBucket, e)
    \/ \E c \in Callers : CreateCommit(c)
    \/ \E c \in Callers, e \in MediaInputs : UpdateBegin(c, MediaBucket, e)
    \/ \E c \in Callers : UpdateCommit(c)
    \/ \E c \in Callers, id \in IDs : Delete(c, MediaBucket, id)
    \/ \E c \in Callers : Return(c)

SpecMedia == Init /\ [][NextMedia]_vars

\* All three services, one caller at a time.
NextSeq ==
    \/ CreateBegin("c1", MediaBucket, OneMedia)
    \/ \E e \in MediaRelationInputs : CreateBegin("c1", MediaRelationBucket, e)
    \/ \E e \in UserMediaInputs : CreateBegin("c1", UserMediaBucket, e)
    \/ CreateCommit("c1")
    \/ \E e \in MediaRelationInputs : UpdateBegin("c1", MediaRelationBucket, e)
    \/ \E e \in UserMediaInputs : UpdateBegin("c1", UserMediaBucket, e)
    \/ UpdateCommit("c1")
    \/ \E id \in 1..MaxSeq : Delete("c1", MediaBucket, id)
    \/ \E id \in JunctionIDs : Delete("c1", MediaRelationBucket, id)
    \/ \E id \in JunctionIDs : Delete("c1", UserMediaBucket, id)
    \/ Return("c1")

SpecSeq == Init /\ [][NextSeq]_vars

ReadIDs == {0} \cup (SeqBase + 1 .. SeqBase + MaxSeq)

MediaReadInputs ==
    {[ID |-> i, Version |-> vq[1], Quarter |-> vq[2], Type |-> <<>>, Source |-> <<>>] :
        i \in ReadIDs, vq \in {<<0, <<2>>>>, <<7, <<5>>>>}}

\* The Media service with caller c1 writing and caller c2 reading, on a
\* database whose Media bucket has handed out SeqBase Identifiers and had
\* all of them deleted.
NextRead ==
    \/ \E e \in {x \in MediaReadInputs : x.ID = 0} : CreateBegin("c1", MediaBucket, e)
    \/ CreateCommit("c1")
    \/ \E e \in MediaReadInputs : UpdateBegin("c1", MediaBucket, e)
    \/ UpdateCommit("c1")
    \/ \E id \in ReadIDs : Delete("c1", MediaBucket, id)
    \/ \E id \in ReadIDs : GetByIDView("c2", MediaBucket, id)
    \/ GetByIDDecode("c2")
    \/ \E keep \in Keeps : GetFilterView("c2", MediaBucket, keep)
    \/ GetFilterDecode("c2")
    \/ \E c \in Callers : Return(c)

SpecRead ==
    InitWith([ConnectedDB EXCEPT ![MediaBucket].seq = SeqBase]) /\ [][NextRead]_vars

\* The Media service and the reset of the database, two callers.
NextReset ==
    \/ \E c \in Callers : CreateBegin(c, MediaBucket, OneMedia)
    \/ \E c \in Callers : CreateCommit(c)
    \/ \E c \in Callers, id \in 1..MaxSeq : Delete(c, MediaBucket, id)
    \/ \E c \in Callers : GetFilterView(c, MediaBucket, KeepAll)
    \/ \E c \in Callers : GetFilterDecode(c)
    \/ \E c \in Callers : ClearDatabaseCall(c)
    \/ \E c \in Callers : Return(c)

SpecReset == Init /\ [][NextReset]_vars

\* The database of a file that lacks at most one bucket of Buckets(), opened
\* by ConnectDatabase(create = false).
OpenedDBs ==
    {ConnectedDB} \cup {[ConnectedDB EXCEPT ![n] = NoBucket] : n \in Buckets}

\* The reset of such a database, with the Media service, two callers.
NextOpened ==
    \/ \E c \in Callers : CreateBegin(c, MediaBucket, OneMedia)
    \/ \E c \in Callers : CreateCommit(c)
    \/ \E c \in Callers, id \in 1..MaxSeq : Delete(c, MediaBucket, id)
    \/ \E c \in Callers : ClearDatabaseCall(c)
    \/ \E c \in Callers : Return(c)

SpecOpened == (\E d \in OpenedDBs : InitWith(d)) /\ [][NextOpened]_vars

\* The functions of pkg/data for MediaProducer, called by c2, with the Media
\* they name created and deleted by caller c1.
NextProducer ==
    \/ CreateBegin("c1", MediaBucket, OneMedia)
    \/ CreateCommit("c1")
    \/ \E id \in 1..MaxSeq : Delete("c1", MediaBucket, id)
    \/ \E mp \in MediaProducerInputs : MediaProducerCreateCall("c2", mp)
    \/ \E mp \in MediaProducerInputs : MediaProducerUpdateCall("c2", mp)
    \/ \E c \in Callers : Return(c)

SpecProducer == Init /\ [][NextProducer]_vars

\* The functions of pkg/data for Episode, likewise.
NextEpisode ==
    \/ CreateBegin("c1", MediaBucket, OneMedia)
    \/ CreateCommit("c1")
    \/ \E id \in 1..MaxSeq : Delete("c1", MediaBucket, id)
    \/ \E c \in Callers, ep \in EpisodeInputs : EpisodeCreateCall(c, ep)
    \/ \E c \in Callers, ep \in EpisodeInputs : EpisodeUpdateCall(c, ep)
    \/ \E c \in Callers : Return(c)

SpecEpisode == Init /\ [][NextEpisode]_vars

\* A database file whose Media bucket holds Media 1 and, under key 2, bytes
\* that are not a Media.
CorruptDB ==
    [ConnectedDB EXCEPT ![MediaBucket] =
        [exists |-> TRUE, seq |-> 2,
         kv |-> [k \in {itob(1), itob(2)} |->
                    IF k = itob(1)
                    THEN MediaMarshal([ID |-> 1, Version |-> 0, Quarter |-> <<2>>,
                                  Type |-> <<>>, Source |-> <<>>]).buf
                    ELSE Garbage]]]

\* The Media service on that file: caller c1 writes, caller c2 reads.
NextCorrupt ==
    \/ CreateBegin("c1", MediaBucket, OneMedia)
    \/ CreateCommit("c1")
    \/ \E e \in MediaInputs : UpdateBegin("c1", MediaBucket, e)
    \/ UpdateCommit("c1")
    \/ \E id \in 1..MaxSeq : Delete("c1", MediaBucket, id)
    \/ \E id \in IDs : GetByIDView("c2", MediaBucket, id)
    \/ GetByIDDecode("c2")
    \/ \E keep \in Keeps : GetFilterView("c2", MediaBucket, keep)
    \/ GetFilterDecode("c2")
    \/ \E c \in Callers : Return(c)

SpecCorrupt == InitWith(CorruptDB) /\ [][NextCorrupt]_vars

\* A database file whose Media bucket holds the Media 1 to 5, large enough
\* to lie in two leaf pages.
LargeDB ==
    [ConnectedDB EXCEPT ![MediaBucket] =
        [exists |-> TRUE, seq |-> 5,
         kv |-> [k \in {itob(i) : i \in 1..5} |->
                    MediaMarshal([ID |-> CHOOSE i \in 1..5 : itob(i) = k,
                                  Version |-> 0, Quarter |-> <<2>>,
                                  Type |-> <<>>, Source |-> <<>>]).buf]]]

\* The Media service on that file: caller c1 updates Media 1 and deletes
\* Media 3 or the Identifier 0, caller c2 calls GetAll.
NextLeaves ==
    \/ \E e \in {x \in MediaInputs : x.ID = 1} : UpdateBegin("c1", MediaBucket, e)
    \/ UpdateCommit("c1")
    \/ \E id \in {0, 3} : Delete("c1", MediaBucket, id)
    \/ GetFilterView("c2", MediaBucket, KeepAll)
    \/ GetFilterDecode("c2")
    \/ \E c \in Callers : Return(c)

SpecLeaves == InitWith(LargeDB) /\ [][NextLeaves]_vars

\* Clean of the Media and MediaRelation services on its own.
NextClean ==
    \/ \E e \in MediaCleanInputs : CleanCall("c1", MediaBucket, e)
    \/ \E e \in MediaRelationCleanInputs : CleanCall("c1", MediaRelationBucket, e)
    \/ CleanAgain("c1")
    \/ Return("c1")

SpecClean == Init /\ [][NextClean]_vars

\* The encoding of WatchStatus on its own and within the UserMedia service,
\* one caller.
NextStatus ==
    \/ \E ws \in StatusInputs : RoundTripCall("c1", ws)
    \/ \E data \in StatusTexts : UnmarshalJSONCall("c1", data)
    \/ CreateBegin("c1", MediaBucket, OneMedia)
    \/ \E e \in UserMediaInputs : CreateBegin("c1", UserMediaBucket, e)
    \/ CreateCommit("c1")
    \/ \E e \in UserMediaInputs : UpdateBegin("c1", UserMediaBucket, e)
    \/ UpdateCommit("c1")
    \/ Return("c1")

SpecStatus == Init /\ [][NextStatus]_vars

\* A file whose MediaProducer bucket holds MediaProducer 1, bytes that are
\* not JSON under key 2 and MediaProducer 3.
CorruptProducerDB ==
    [ConnectedDB EXCEPT
       ![MediaBucket] = Put([EmptyBucket EXCEPT !.seq = 1], itob(1), MediaMarshal(OneMedia).buf),
       ![MediaProducerBucket] =
          [exists |-> TRUE, seq |-> 3,
           kv |-> [k \in {itob(1), itob(2), itob(3)} |->
                      IF k = itob(2) THEN Garbage
                      ELSE MediaProducerMarshal([ID |-> IF k = itob(1) THEN 1 ELSE 3,
                                                 MediaID |-> 1, ProducerID |-> 1,
                                                 Version |-> 0])]]]

MediaProducerFilters == {<<>>, <<1>>, <<2>>}

\* pkg/data's MediaProducer functions on that file.
NextCorruptProducer ==
    \/ \E c \in Callers, mp \in MediaProducerInputs : MediaProducerCreateCall(c, mp)
    \/ \E c \in Callers, mp \in [ID : 1..3, MediaID : {1}, ProducerID : {1, 2}, Version : {0}] :
          MediaProducerUpdateCall(c, mp)
    \/ \E c \in Callers, f \in MediaProducerFilters : MediaProducerGetFilterCall(c, f)
    \/ \E c \in Callers : Return(c)

SpecCorruptProducer == InitWith(CorruptProducerDB) /\ [][NextCorruptProducer]_vars

\* The Media service with the writer lock taken in a step of its own: every
\* db.Update first waits for the lock, then runs and commits.  Both callers
\* create and update, c2 deletes; c1 reads one Media and c2 reads all.
LiveInputs == {e \in MediaInputs : e.ID = 1 /\ e.Version = 0}

NextLive ==
    \/ \E c \in Callers : CreateBegin(c, MediaBucket, OneMedia)
    \/ \E c \in Callers, e \in LiveInputs : UpdateBegin(c, MediaBucket, e)
    \/ DeleteBegin("c2", MediaBucket, 1)
    \/ \E c \in Callers : WriteLock(c)
    \/ \E c \in Callers : CreateCommitAt(c, "createLocked")
    \/ \E c \in Callers : UpdateCommitAt(c, "updateLocked")
    \/ \E c \in Callers : DeleteAt(c, ser[c], arg[c].ID, "deleteLocked")
    \/ GetByIDView("c1", MediaBucket, 1)
    \/ GetByIDDecode("c1")
    \/ GetFilterView("c2", MediaBucket, KeepAll)
    \/ GetFilterDecode("c2")
    \/ \E c \in Callers : Return(c)

\* What caller c does next inside a call, once it has the lock it needs.
Proceeds(c) ==
    \/ CreateCommitAt(c, "createLocked")
    \/ UpdateCommitAt(c, "updateLocked")
    \/ DeleteAt(c, ser[c], arg[c].ID, "deleteLocked")
    \/ GetByIDDecode(c)
    \/ GetFilterDecode(c)

\* Fair scheduling: a goroutine that can run does run, and a goroutine that
\* waits for the writer lock gets it when it is free again and again (the
\* mutex hands the lock to a waiter that has waited long).  No caller has to
\* start a call.  Each of these steps moves the caller's position.
Fairness ==
    \A c \in Callers : WF_pc(Proceeds(c)) /\ SF_pc(WriteLock(c))

SpecLive == Init /\ [][NextLive]_vars /\ Fairness

\* ============================================================== properties
\* Steps of a call, as seen on the caller's position.
CreateCommitted(c) == pc[c] = "createTx" /\ pc'[c] = "done" /\ err'[c] = Nil
UpdateCommitted(c) == pc[c] = "updateTx" /\ pc'[c] = "done" /\ err'[c] = Nil
DoneOK(c, o) == pc[c] = "done" /\ op[c] = o /\ err[c] = Nil

\* The foreign identifiers of a stored junction value, with their buckets.
References(s, v) ==
    IF s = MediaRelationBucket
    THEN {<<MediaBucket, v.OwnerID>>, <<MediaBucket, v.RelatedID>>}
    ELSE IF s = UserMediaBucket
    THEN {<<UserBucket, v.UserID>>, <<MediaBucket, v.MediaID>>}
    ELSE {}

Written(s, k) ==
    /\ k \in DOMAIN db'[s].kv
    /\ k \in DOMAIN db[s].kv => db'[s].kv[k] # db[s].kv[k]

\* C1: whenever Create or Update puts a junction value, every entity it
\* references is in its target bucket in the state the put commits against.
C1_PutSeesReferences ==
    [][\A s \in {MediaRelationBucket, UserMediaBucket} :
         \A k \in DOMAIN db'[s].kv :
            Written(s, k) =>
               \A r \in References(s, db'[s].kv[k]) :
                  itob(r[2]) \in DOMAIN db[r[1]].kv]_vars

\* C2: a successful Create adds exactly one key, one the bucket never held
\* before, and the value stored there has that Identifier and Version 0.
C2_CreateFreshIdentifier ==
    [][\A c \in Callers :
         CreateCommitted(c) =>
            LET s == ser[c]
                k == itob(m'[c].ID)
            IN /\ k \notin assigned[s]
               /\ DOMAIN db'[s].kv = DOMAIN db[s].kv \cup {k}
               /\ itob(db'[s].kv[k].ID) = k
               /\ db'[s].kv[k].Version = 0]_vars

\* A Create that was passed ID 1 and Version 7 stored its Media under
\* Identifier 2 after Identifier 1 had been deleted.
C2_Witness ==
    \E c \in Callers :
       /\ DoneOK(c, "Create")
       /\ arg[c].Version = 7 /\ arg[c].ID = 1 /\ m[c].ID = 2
       /\ itob(2) \in DOMAIN db[ser[c]].kv
       /\ itob(1) \in assigned[ser[c]] \ DOMAIN db[ser[c]].kv

\* C3: a successful Update stores the previously stored Version plus 1.
C3_UpdateIncrementsVersion ==
    [][\A c \in Callers :
         UpdateCommitted(c) =>
            LET s == ser[c]
                k == itob(m[c].ID)
            IN /\ k \in DOMAIN db[s].kv /\ k \in DOMAIN db'[s].kv
               /\ db'[s].kv[k].Version = db[s].kv[k].Version + 1]_vars

\* An Update that was passed Version 7 stored Version 1.
C3_Witness ==
    \E c \in Callers :
       /\ DoneOK(c, "Update")
       /\ arg[c].Version = 7
       /\ itob(m[c].ID) \in DOMAIN db[ser[c]].kv
       /\ db[ser[c]].kv[itob(m[c].ID)].Version = 1

\* Number of Updates committed on key k of bucket s.
Committed(s, k) == IF k \in DOMAIN updates[s] THEN updates[s][k] ELSE 0

\* C4: the stored Version of every record is the number of Updates that
\* committed on its Identifier since it was created with Version 0.
C4_VersionCountsUpdates ==
    \A s \in Services :
       \A k \in DOMAIN db[s].kv : db[s].kv[k].Version = Committed(s, k)

\* Two Updates of one Identifier that both started below MaxVersion have
\* both committed: the stored Version is MaxVersion + 1.
C4_Witness ==
    \E c1, c2 \in Callers :
       /\ c1 # c2
       /\ DoneOK(c1, "Update") /\ DoneOK(c2, "Update")
       /\ ser[c1] = ser[c2] /\ m[c1].ID = m[c2].ID
       /\ m[c1].Version # m[c2].Version
       /\ itob(m[c1].ID) \in DOMAIN db[ser[c1]].kv
       /\ db[ser[c1]].kv[itob(m[c1].ID)].Version = MaxVersion + 1

\* A call of operation o on a junction service starts in this step.
Begins(c, o) == pc[c] = "idle" /\ pc'[c] # "idle" /\ op'[c] = o

\* Some foreign identifier of the junction entity e of service s names no
\* record of its target bucket in d.
MissingReference(s, e, d) ==
    \/ \E r \in References(s, e) : itob(r[2]) \notin DOMAIN d[r[1]].kv
    \/ /\ s = UserMediaBucket
       /\ \E i \in 1..Len(e.UserMediaListIDs) :
             itob(e.UserMediaListIDs[i]) \notin DOMAIN d[UserMediaListBucket].kv

\* C5: Create or Update of a junction entity with a foreign identifier that
\* names no record returns an error in the step that validates it and leaves
\* every bucket as it was.
C5_MissingReferenceRejected ==
    [][\A c \in Callers :
         /\ Begins(c, "Create") \/ Begins(c, "Update")
         /\ ser'[c] \in {MediaRelationBucket, UserMediaBucket}
         /\ MissingReference(ser'[c], arg'[c], db)
         => /\ pc'[c] = "done"
            /\ err'[c] # Nil
            /\ db' = db]_vars

\* A MediaRelation whose owner exists and whose related Media does not was
\* rejected with the not-found error of the related Media.
C5_Witness ==
    \E c \in Callers :
       /\ pc[c] = "done" /\ op[c] \in {"Create", "Update"}
       /\ ser[c] = MediaRelationBucket
       /\ itob(arg[c].OwnerID) \in DOMAIN db[MediaBucket].kv
       /\ itob(arg[c].RelatedID) \notin DOMAIN db[MediaBucket].kv
       /\ err[c] = ErrNotFound(arg[c].RelatedID)
       /\ db[MediaRelationBucket].kv = EmptyKV

\* C6: a Create or Update writes nothing before its write transaction, and
\* the step in which it returns an error changes no bucket and no sequence.
C6_FailureLeavesStore ==
    [][\A c \in Callers :
         /\ Begins(c, "Create") \/ Begins(c, "Update") => db' = db
         /\ /\ pc[c] # "done" /\ pc'[c] = "done"
            /\ op'[c] \in {"Create", "Update"}
            /\ err'[c] # Nil
            => db' = db]_vars

\* A Create failed in Marshal after NextSequence and Initialize: the caller's
\* entity carries the Identifier it was given, the sequence is where it was.
C6_Witness ==
    \E c \in Callers :
       /\ pc[c] = "done" /\ op[c] = "Create" /\ ser[c] = UserMediaBucket
       /\ err[c] = ErrWatchStatus
       /\ m[c].ID = db[UserMediaBucket].seq + 1
       /\ itob(m[c].ID) \notin DOMAIN db[UserMediaBucket].kv

\* C7: the write transaction of an Update whose Identifier is not a key of
\* the bucket returns the not-found error of that Identifier and changes
\* nothing; no Update adds a key.
C7_UpdateNeverCreates ==
    [][\A c \in Callers :
         pc[c] = "updateTx" /\ pc'[c] = "done" =>
            LET s == ser[c]
                k == itob(m[c].ID)
            IN /\ DOMAIN db'[s].kv = DOMAIN db[s].kv
               /\ k \notin DOMAIN db[s].kv =>
                     err'[c] = ErrNotFound(m[c].ID) /\ db' = db]_vars

\* An Update of an Identifier that was created and then deleted returned
\* not-found and the key is still absent.
C7_Witness ==
    \E c \in Callers :
       /\ pc[c] = "done" /\ op[c] = "Update"
       /\ err[c] = ErrNotFound(m[c].ID)
       /\ itob(m[c].ID) \in assigned[ser[c]] \ DOMAIN db[ser[c]].kv

\* C8: a committing Create puts under a key the bucket does not hold, keeps
\* every record already there, and its Identifier differs from that of
\* every other caller's Create that has committed and not yet returned.
C8_CreatesDoNotCollide ==
    [][\A c \in Callers :
         CreateCommitted(c) =>
            LET s == ser[c]
                k == itob(m'[c].ID)
            IN /\ k \notin DOMAIN db[s].kv
               /\ \A x \in DOMAIN db[s].kv :
                     x \in DOMAIN db'[s].kv /\ db'[s].kv[x] = db[s].kv[x]
               /\ \A c2 \in Callers \ {c} :
                     DoneOK(c2, "Create") /\ ser[c2] = s => m[c2].ID # m'[c].ID]_vars

\* Two Creates that both started at sequence MaxSeq - 1 have both
\* committed: different Identifiers, both records present.
C8_Witness ==
    \E c1, c2 \in Callers :
       /\ c1 # c2
       /\ DoneOK(c1, "Create") /\ DoneOK(c2, "Create")
       /\ ser[c1] = ser[c2]
       /\ db[ser[c1]].seq = MaxSeq + 1
       /\ m[c1].ID # m[c2].ID
       /\ {itob(m[c1].ID), itob(m[c2].ID)} \subseteq DOMAIN db[ser[c1]].kv

\* A Delete runs in this step.
Deletes(c) == pc[c] = "idle" /\ pc'[c] = "done" /\ op'[c] = "Delete"

\* C9: Delete of an Identifier that is not in the bucket returns no error
\* and changes nothing; a second Delete of the same Identifier right after
\* any Delete gives the same store and the same result.
C9_DeleteIdempotent ==
    [][\A c \in Callers :
         Deletes(c) =>
            LET s == ser'[c]
                id == arg'[c].ID
            IN /\ itob(id) \notin DOMAIN db[s].kv => err'[c] = Nil /\ db' = db
               /\ DeleteTx(id, s, db') = [db |-> db', err |-> err'[c]]]_vars

\* Both callers deleted the same, once stored, Identifier without error.
C9_Witness ==
    \E c1, c2 \in Callers :
       /\ c1 # c2
       /\ DoneOK(c1, "Delete") /\ DoneOK(c2, "Delete")
       /\ ser[c1] = ser[c2] /\ arg[c1].ID = arg[c2].ID
       /\ itob(arg[c1].ID) \in assigned[ser[c1]] \ DOMAIN db[ser[c1]].kv

\* Junction records of d that reference Media id.
Referencing(id, d) ==
    {<<s, k>> \in {MediaRelationBucket, UserMediaBucket} \X
                  UNION {DOMAIN d[s].kv : s \in {MediaRelationBucket, UserMediaBucket}} :
        /\ k \in DOMAIN d[s].kv
        /\ <<MediaBucket, id>> \in References(s, d[s].kv[k])}

\* C10: Delete of a stored Media that junction records reference returns
\* no error, removes that key alone from the Media bucket and leaves every
\* other bucket as it was.
C10_DeleteDoesNotCascade ==
    [][\A c \in Callers :
         /\ Deletes(c) /\ ser'[c] = MediaBucket
         /\ itob(arg'[c].ID) \in DOMAIN db[MediaBucket].kv
         /\ Referencing(arg'[c].ID, db) # {}
         => /\ err'[c] = Nil
            /\ DOMAIN db'[MediaBucket].kv = DOMAIN db[MediaBucket].kv \ {itob(arg'[c].ID)}
            /\ \A k \in DOMAIN db'[MediaBucket].kv :
                  db'[MediaBucket].kv[k] = db[MediaBucket].kv[k]
            /\ db'[MediaBucket].seq = db[MediaBucket].seq
            /\ \A n \in BucketNames \ {MediaBucket} : db'[n] = db[n]]_vars

\* A Media was deleted while a MediaRelation that names it stays stored.
C10_Witness ==
    \E c \in Callers :
       /\ DoneOK(c, "Delete") /\ ser[c] = MediaBucket
       /\ itob(arg[c].ID) \in assigned[MediaBucket] \ DOMAIN db[MediaBucket].kv
       /\ Referencing(arg[c].ID, db) # {}

\* A read of operation o returns in this step.
Reads(c, o) == pc[c] \in {"idle", "getDecode"} /\ pc'[c] = "done" /\ op'[c] = o

\* The bucket as the read transaction of the returning read saw it, and the
\* entities that the puts before that transaction wrote.
Seen(c) == IF pc[c] = "getDecode" THEN m[c].at ELSE db[ser'[c]]

SeenWritten(c) == IF pc[c] = "getDecode" THEN m[c].was ELSE written[ser'[c]]

\* C11: GetByID returns not-found exactly when the Identifier is not
\* stored when its read transaction runs, otherwise the entity of the last
\* Create or Update of that Identifier committed before, and it changes
\* nothing in the store.
C11_GetByIDReturnsLastWrite ==
    [][\A c \in Callers :
         Reads(c, "GetByID") =>
            LET id == arg'[c].ID
                k == itob(id)
            IN /\ db' = db
               /\ err'[c] = ErrNotFound(id) <=> k \notin DOMAIN Seen(c).kv
               /\ k \in DOMAIN Seen(c).kv =>
                     err'[c] = Nil /\ res'[c] = SeenWritten(c)[k]]_vars

\* GetByID returned a Media that an Update had written: Version 1 and the
\* Quarter that Clean reset.
C11_Witness ==
    \E c \in Callers :
       /\ DoneOK(c, "GetByID")
       /\ res[c].ID = arg[c].ID
       /\ res[c].Version = 1 /\ res[c].Quarter = <<0>>

\* The entities stored in bucket s, as their last put wrote them.
StoredEntities(s) == {written[s][k] : k \in DOMAIN db[s].kv}

\* The same for the bucket that the returning read of caller c saw.
SeenEntities(c) == {SeenWritten(c)[k] : k \in DOMAIN Seen(c).kv}

Elements(list) == {list[i] : i \in 1..Len(list)}

\* C12: GetFilter returns the stored entities for which keep holds, each
\* once: none for the always-false predicate, and for the always-true one
\* what GetAll returns, one entity per key.
C12_GetFilterKeepsExactly ==
    [][\A c \in Callers :
         Reads(c, "GetFilter") =>
            LET s == ser'[c]
                keep == arg'[c].keep
                kept == {e \in SeenEntities(c) : Keep(keep, e)}
            IN /\ err'[c] = Nil
               /\ Elements(res'[c].list) = kept
               /\ Len(res'[c].list) = Cardinality(kept)
               /\ keep = KeepNone => res'[c].list = <<>>
               /\ keep = KeepAll =>
                     /\ res'[c].list = GetAll(s, [db EXCEPT ![s] = Seen(c)]).list
                     /\ Len(res'[c].list) = Cardinality(DOMAIN Seen(c).kv)]_vars

\* GetFilter kept the second of two stored Media and not the first.
C12_Witness ==
    \E c \in Callers :
       /\ DoneOK(c, "GetFilter") /\ arg[c].keep = KeepFresh
       /\ Cardinality(DOMAIN db[ser[c]].kv) = 2
       /\ Len(res[c].list) = 1
       /\ res[c].list[1].ID = SeqBase + 2

\* C13: GetAll and GetFilter return the entities in ascending order of
\* Identifier.
C13_ListAscending ==
    [][\A c \in Callers :
         Reads(c, "GetFilter") =>
            \A i, j \in 1..Len(res'[c].list) : i < j => res'[c].list[i].ID < res'[c].list[j].ID]_vars

\* GetAll returned the Media SeqBase + 1 and SeqBase + 2 in that order.
C13_Witness ==
    \E c \in Callers :
       /\ DoneOK(c, "GetFilter") /\ arg[c].keep = KeepAll
       /\ Len(res[c].list) = 2
       /\ res[c].list[1].ID = SeqBase + 1 /\ res[c].list[2].ID = SeqBase + 2

\* Caller c's Update failed in the given stage of the operation.
UpdateFailedIn(c, st) ==
    pc[c] = "done" /\ op[c] = "Update" /\ err[c] # Nil /\ stage[c] = st

\* C14: the error of an Update whose target Identifier is missing differs
\* from the error of an Update whose foreign identifier names a missing
\* record, and the latter names the offending field.
C14_NotFoundDistinctFromValidation ==
    \A c1, c2 \in Callers :
       UpdateFailedIn(c1, "Tx") /\ UpdateFailedIn(c2, "Validate") =>
          /\ err[c1] # err[c2]
          /\ "field" \in DOMAIN err[c2]

\* C15: the write transaction of a Media Update whose Identifier is stored
\* succeeds whatever Version the caller passed, and leaves the non-Version
\* fields of this caller's entity in the store: of two Updates that both
\* commit, the later one's fields stay.
C15_UpdateIgnoresCallerVersion ==
    [][\A c \in Callers :
         pc[c] = "updateTx" /\ pc'[c] = "done" /\ ser[c] = MediaBucket =>
            LET k == itob(arg[c].ID)
            IN k \in DOMAIN db[MediaBucket].kv =>
                  /\ err'[c] = Nil
                  /\ db'[MediaBucket].kv[k].ID = arg[c].ID
                  /\ db'[MediaBucket].kv[k].SeasonPremiered.Quarter = m[c].Quarter
                  /\ m[c].Quarter \in {arg[c].Quarter, <<0>>}]_vars

\* Two Updates of one Media that passed different Versions and Quarters
\* have both committed; the store holds the Quarter of the later one.
C15_Witness ==
    \E c1, c2 \in Callers :
       /\ DoneOK(c1, "Update") /\ DoneOK(c2, "Update")
       /\ ser[c1] = MediaBucket /\ ser[c2] = MediaBucket
       /\ arg[c1].ID = arg[c2].ID
       /\ arg[c1].Version = 7 /\ arg[c2].Version = 0
       /\ m[c1].Version = 1 /\ m[c2].Version = 2
       /\ m[c1].Quarter # m[c2].Quarter
       /\ itob(arg[c2].ID) \in DOMAIN db[MediaBucket].kv
       /\ db[MediaBucket].kv[itob(arg[c2].ID)].Version = 2
       /\ db[MediaBucket].kv[itob(arg[c2].ID)].SeasonPremiered.Quarter = m[c2].Quarter

\* C16: after a ClearDatabase that returned nil every bucket of Buckets()
\* exists and is empty, a GetAll returns the empty list and a Create
\* succeeds.
C16_ResetLeavesEmptyBuckets ==
    [][\A c \in Callers :
         pc[c] = "idle" /\ pc'[c] = "done" /\ op'[c] = "ClearDatabase" /\ err'[c] = Nil =>
            /\ \A n \in Buckets : db'[n].exists /\ DOMAIN db'[n].kv = {}
            /\ GetAll(MediaBucket, db') = [list |-> <<>>, err |-> Nil]
            /\ CreateTx(OneMedia, MediaBucket, db').err = Nil]_vars

\* Caller c runs the function o of pkg/data in this step.
Calls(c, o) == pc[c] = "idle" /\ pc'[c] = "done" /\ op'[c] = o

\* No record of bucket s has Identifier id.
Absent(s, id) == itob(id) \notin DOMAIN db[s].kv

\* C17: the MediaProducer a successful MediaProducerCreate stores has
\* Version 0, whatever Version the caller passed.
C17_MediaProducerCreateResetsVersion ==
    [][\A c \in Callers :
         Calls(c, "MediaProducerCreate") /\ err'[c] = Nil =>
            /\ itob(m'[c].ID) \in DOMAIN db'[MediaProducerBucket].kv
            /\ db'[MediaProducerBucket].kv[itob(m'[c].ID)].Version = 0]_vars

\* C18: MediaProducerUpdate of a stored MediaProducer whose MediaID or
\* ProducerID names no stored record fails and leaves the MediaProducer
\* bucket as it was.
C18_MediaProducerUpdateValidates ==
    [][\A c \in Callers :
         /\ Calls(c, "MediaProducerUpdate")
         /\ ~Absent(MediaProducerBucket, arg'[c].ID)
         /\ \/ Absent(MediaBucket, arg'[c].MediaID)
            \/ Absent(ProducerBucket, arg'[c].ProducerID)
         => /\ err'[c] # Nil
            /\ db'[MediaProducerBucket] = db[MediaProducerBucket]]_vars

\* C19: EpisodeCreate and EpisodeUpdate of an Episode whose MediaID names
\* no stored Media fail and leave the Episode bucket as it was.
C19_EpisodeWritesValidateMedia ==
    [][\A c \in Callers :
         /\ Calls(c, "EpisodeCreate") \/ Calls(c, "EpisodeUpdate")
         /\ Absent(MediaBucket, arg'[c].MediaID)
         => /\ err'[c] # Nil
            /\ db'[EpisodeBucket] = db[EpisodeBucket]]_vars

\* The value stored under key k of bucket s cannot be decoded.
Undecodable(s, k) == k \in DOMAIN db[s].kv /\ db[s].kv[k] = Garbage

\* The same for the bucket that the returning read of caller c saw.
SeenUndecodable(c, k) == k \in DOMAIN Seen(c).kv /\ Seen(c).kv[k] = Garbage

\* C20: when the stored bytes of a record cannot be decoded, Update and
\* GetByID of its Identifier and GetAll/GetFilter on its bucket return an
\* error; the Update writes nothing and GetFilter returns no list.
C20_DecodeErrorPropagates ==
    [][\A c \in Callers :
         /\ pc[c] = "updateTx" /\ pc'[c] = "done" /\ Undecodable(ser[c], itob(arg[c].ID))
            => err'[c] # Nil /\ db' = db
         /\ Reads(c, "GetByID") /\ SeenUndecodable(c, itob(arg'[c].ID))
            => err'[c] # Nil /\ db' = db
         /\ Reads(c, "GetFilter") /\ (\E k \in DOMAIN Seen(c).kv : SeenUndecodable(c, k))
            => err'[c] # Nil /\ res'[c].list = <<>> /\ db' = db]_vars

\* With Media 1 decodable and the value under key 2 not, an Update of 2
\* and a GetAll have both failed with the decoding error.
C20_Witness ==
    /\ pc["c1"] = "done" /\ op["c1"] = "Update" /\ arg["c1"].ID = 2
    /\ err["c1"] = ErrDecode
    /\ pc["c2"] = "done" /\ op["c2"] = "GetFilter" /\ arg["c2"].keep = KeepAll
    /\ err["c2"] = ErrDecode /\ res["c2"].list = <<>>
    /\ ~Undecodable(MediaBucket, itob(1)) /\ Undecodable(MediaBucket, itob(2))

\* Caller c holds the entity that Clean of service s left.
Cleaned(c, s) == pc[c] = "done" /\ op[c] \in {"Clean", "CleanTwice"} /\ ser[c] = s

\* C21: after MediaService.Clean the Quarter of a Media, when present, is a
\* valid quarter or the default 0, whatever integer it was before.
C21_CleanedQuarterValidOrDefault ==
    \A c \in Callers :
       Cleaned(c, MediaBucket) /\ m[c].Quarter # <<>> =>
          IsValid(m[c].Quarter[1]) \/ m[c].Quarter[1] = 0

\* C22: Clean of the Media and of the MediaRelation service is idempotent:
\* the second Clean leaves the entity as the first one left it.
C22_CleanIdempotent ==
    \A c \in Callers :
       pc[c] = "done" /\ op[c] = "CleanTwice" => err[c] = Nil /\ m[c] = res[c]

\* Clean has run twice on a Media whose Type had two blanks in front and
\* whose Quarter was above Fall: the first Clean changed both.
C22_Witness ==
    \E c \in Callers :
       /\ pc[c] = "done" /\ op[c] = "CleanTwice" /\ ser[c] = MediaBucket
       /\ arg[c].Type # <<>> /\ Len(arg[c].Type[1]) = 3
       /\ SubSeq(arg[c].Type[1], 1, 2) = <<" ", " ">>
       /\ res[c].Type = <<<<"a">>>>
       /\ arg[c].Quarter = <<Fall + 1>> /\ res[c].Quarter = <<0>>

\* C23: MarshalJSON followed by UnmarshalJSON gives back each of
\* Completed, Planning, Dropped and Hold; MarshalJSON fails for every other
\* WatchStatus and UnmarshalJSON for every other string; no stored
\* UserMedia has a Status outside the four names.
C23_WatchStatusRoundTrip ==
    /\ \A c \in Callers :
          pc[c] = "done" /\ op[c] = "RoundTrip" =>
             IF arg[c].Status[1] \in {0, 1, 2, 3}
             THEN err[c] = Nil /\ m[c].Status = arg[c].Status
             ELSE err[c] # Nil /\ stage[c] = "Marshal"
    /\ \A c \in Callers :
          /\ pc[c] = "done" /\ op[c] = "UnmarshalJSON"
          /\ arg[c].data \notin {"Completed", "Planning", "Dropped", "Hold"}
          => err[c] # Nil
    /\ \A k \in DOMAIN db[UserMediaBucket].kv :
          db[UserMediaBucket].kv[k].Status \in
             {"null", "Completed", "Planning", "Dropped", "Hold"}

\* Hold has gone through MarshalJSON and UnmarshalJSON and come back, with
\* a UserMedia of Status Planning in the store.
C23_Witness ==
    /\ pc["c1"] = "done" /\ op["c1"] = "RoundTrip"
    /\ arg["c1"].Status = <<Hold>> /\ res["c1"].v = "Hold" /\ m["c1"].Status = <<Hold>>
    /\ \E k \in DOMAIN db[UserMediaBucket].kv : db[UserMediaBucket].kv[k].Status = "Planning"

\* Caller c is inside a call of a running process.
Calling(c) == pc[c] \notin {"idle", "done", "crashed"}

\* C24: under fair scheduling every Create, Update, Delete, GetByID and
\* GetFilter call that has begun ends, whatever the other caller does; in
\* particular an Update that holds the writer lock gets through the read
\* transaction it opens inside.
C24_CallsTerminate ==
    \A c \in Callers : Calling(c) ~> pc[c] = "done"

\* An Update has gone through its write transaction and returned while the
\* other caller waits for the writer lock.
C24_Witness ==
    \E c, w \in Callers :
       /\ DoneOK(c, "Update") /\ m[c].Version = 1
       /\ pc[w] \in {"createTx", "updateTx", "deleteTx"}

\* C25: a MediaProducerCreate that commits found its Media and its Producer
\* in the state its write transaction began with, and that transaction
\* leaves both buckets alone, whatever Deletes run before or after it.
C25_MediaProducerCreateSeesReferences ==
    [][\A c \in Callers :
         Calls(c, "MediaProducerCreate") /\ err'[c] = Nil =>
            /\ ~Absent(MediaBucket, arg'[c].MediaID)
            /\ ~Absent(ProducerBucket, arg'[c].ProducerID)
            /\ db'[MediaBucket] = db[MediaBucket]
            /\ db'[ProducerBucket] = db[ProducerBucket]
            /\ itob(m'[c].ID) \in DOMAIN db'[MediaProducerBucket].kv]_vars

\* A MediaProducer of Media 1 was committed, and a Delete of Media 1 has
\* run since.
C25_Witness ==
    /\ DoneOK("c2", "MediaProducerCreate") /\ arg["c2"].MediaID = 1
    /\ itob(m["c2"].ID) \in DOMAIN db[MediaProducerBucket].kv
    /\ DoneOK("c1", "Delete") /\ arg["c1"].ID = 1
    /\ itob(1) \in assigned[MediaBucket] \ DOMAIN db[MediaBucket].kv

\* C26: MediaProducerUpdate of a record whose stored bytes cannot be decoded
\* returns an error and leaves the MediaProducer bucket as it was.
C26_MediaProducerUpdateDecodes ==
    [][\A c \in Callers :
         Calls(c, "MediaProducerUpdate") /\ Undecodable(MediaProducerBucket, itob(arg'[c].ID)) =>
            /\ err'[c] # Nil
            /\ db'[MediaProducerBucket] = db[MediaProducerBucket]]_vars

\* C27: MediaProducerGetFilter and MediaProducerGetAll return an error when
\* a value of the MediaProducer bucket cannot be decoded.
C27_MediaProducerGetFilterDecodes ==
    [][\A c \in Callers :
         /\ Calls(c, "MediaProducerGetFilter")
         /\ \E k \in DOMAIN db[MediaProducerBucket].kv : Undecodable(MediaProducerBucket, k)
         => err'[c] # Nil]_vars

\* The bytes of key k, most significant first, encode the integer v >= 0.
RECURSIVE KeyEncodes(_, _)
KeyEncodes(k, v) ==
    IF k = <<>> THEN v = 0
    ELSE /\ k[Len(k)] = v % 256
         /\ KeyEncodes(SubSeq(k, 1, Len(k) - 1), v \div 256)

\* The Identifier decoded from the value stored under key k of bucket s.
StoredIdentifier(s, k) == Unmarshal(s, db[s].kv[k]).m.ID

\* C28: the Identifier decoded from every stored value of a generic service
\* is the integer of its 8-byte key, and an Update stores under no key that
\* was not there and leaves the Identifier under each key as it was.
C28_IdentifierIsKey ==
    /\ [](\A s \in Services : \A k \in DOMAIN db[s].kv :
            /\ Len(k) = 8
            /\ StoredIdentifier(s, k) >= 0
            /\ KeyEncodes(k, StoredIdentifier(s, k)))
    /\ [][\A c \in Callers :
            UpdateCommitted(c) =>
               /\ DOMAIN db'[ser[c]].kv = DOMAIN db[ser[c]].kv
               /\ \A k \in DOMAIN db[ser[c]].kv :
                     Unmarshal(ser[c], db'[ser[c]].kv[k]).m.ID = StoredIdentifier(ser[c], k)]_vars

\* An Update was committed over a record that a Create stored.
C28_Witness ==
    \E s \in Services : \E k \in DOMAIN db[s].kv :
        /\ k \in DOMAIN updates[s]
        /\ StoredIdentifier(s, k) \in 1..db[s].seq
        /\ KeyEncodes(k, StoredIdentifier(s, k))

\* C29: in a bucket that was empty with sequence 0 when the database was
\* opened, the Identifiers given out so far are 1..k after k successful
\* Creates: a successful Create receives the sequence plus one, and a failed
\* Create, a Delete and every other step leave the sequence as it was.
C29_KthCreateReceivesK ==
    /\ [](\A s \in Services :
            seq0[s] = 0 => assigned[s] = {itob(i) : i \in 1..db[s].seq})
    /\ [][\A s \in Services :
            seq0[s] = 0 =>
               IF \E c \in Callers : CreateCommitted(c) /\ ser[c] = s
               THEN \A c \in Callers :
                       CreateCommitted(c) /\ ser[c] = s =>
                          /\ m'[c].ID = db[s].seq + 1
                          /\ db'[s].seq = m'[c].ID
                          /\ itob(m'[c].ID) \in DOMAIN db'[s].kv
               ELSE db'[s].seq = db[s].seq]_vars

\* A Create failed inside its write transaction and its bucket still has
\* sequence 0, while the Media bucket gave out 1 and 2 and keeps sequence 2
\* after Media 2 was deleted.
C29_Witness ==
    \E c \in Callers :
        /\ pc[c] = "done" /\ op[c] = "Create" /\ ser[c] = UserMediaBucket
        /\ err[c] # Nil /\ stage[c] = "Tx"
        /\ db[UserMediaBucket].seq = 0
        /\ db[MediaBucket].seq = 2
        /\ assigned[MediaBucket] = {itob(1), itob(2)}
        /\ DOMAIN db[MediaBucket].kv = {itob(1)}

\* C30: after ConnectDatabase(create = true) no Create and no Update ends
\* on a missing bucket, neither with the error of get on a nil bucket nor
\* with the nil dereference; a UserMedia with list identifiers included.
C30_NoMissingBucket ==
    \A c \in Callers :
        pc[c] = "done" /\ op[c] \in {"Create", "Update"} =>
            err[c] \notin {ErrNilBucket, PanicNilBucket}

\* C31: a ClearDatabase that finds a bucket of Buckets() absent returns an
\* error and leaves the database as it was; one that returns nil leaves no
\* bucket of Buckets(), so that a ClearDatabase directly after it returns an
\* error and changes nothing.
C31_ClearDatabaseAllOrNothing ==
    [][\A c \in Callers :
         Calls(c, "ClearDatabase") =>
            /\ (\E n \in Buckets : ~db[n].exists) => err'[c] # Nil
            /\ err'[c] # Nil => db' = db
            /\ err'[c] = Nil =>
                  /\ \A n \in Buckets : ~db'[n].exists
                  /\ ClearDatabase(db').err # Nil
                  /\ ClearDatabase(db').db = db']_vars

\* A ClearDatabase failed on a database whose Media bucket holds a record
\* while a bucket later in Buckets() is absent.
C31_Witness ==
    \E c \in Callers :
        /\ pc[c] = "done" /\ op[c] = "ClearDatabase" /\ err[c] = ErrBucketNotFound
        /\ db[MediaBucket].exists /\ DOMAIN db[MediaBucket].kv # {}
        /\ \E n \in Buckets : ~db[n].exists

====
